---- MODULE Spec2Model ----
(***************************************************************************)
(* A model of the receipt scanner's core: the OCR line-item parser         *)
(* (src/lib/receipt-ocr.ts), the date/time normalizer                      *)
(* (src/unnamed/part_000), the receipts table with its dedupe key and      *)
(* duplicate query (src/lib/db.ts) and the save-time reconciliation of     *)
(* qty / unit price / line total (src/unnamed/part_006 and                 *)
(* src/app/receipt/[id].tsx).                                              *)
(*                                                                         *)
(* Conventions.                                                            *)
(*  - JavaScript strings are TLA+ strings; a character is a string of      *)
(*    length 1 and regular expressions are matched character by character. *)
(*  - A nullable value is a sequence: None (<<>>) is null, Some(v) (<<v>>) *)
(*    is the value v.                                                      *)
(*  - A JavaScript number is an integer count of thousandths (1.50 is      *)
(*    1500).  The inputs of the model carry at most three decimals, and    *)
(*    toFixed(2) rounds half away from zero, which is what the doubles of  *)
(*    the model's inputs give.  Where the representation error of a double *)
(*    decides the outcome, in |a - b| <= 0.01 on amounts one cent apart,   *)
(*    the outcome is tabulated (CentStepsWithinTolerance).                 *)
(*  - A Date is a record [day, sec]: the days since 1970-01-01 and the     *)
(*    seconds into the day, local time, in a time zone without             *)
(*    daylight-saving shifts.                                              *)
(***************************************************************************)
EXTENDS Integers, Sequences, FiniteSets, TLC

(***************************************************************************)
(* Bounds of the model.                                                    *)
(***************************************************************************)
\* Lines of OCR text in one parseReceiptItems call.
MaxLines == 3

\* Thousandths per unit: the fixed-point scale of every number.
Scale == 10 * 10 * 10

None == <<>>
Some(v) == <<v>>
Val(o) == o[1]

(***************************************************************************)
(* Characters and strings.                                                 *)
(***************************************************************************)
\* s.substring(i - 1, j), s.charAt(i - 1) and s.substring(i - 1), 1-based.
Sub(s, i, j) ==
  LET a == IF i < 1 THEN 1 ELSE i
      b == IF j > Len(s) THEN Len(s) ELSE j
  IN  IF a > b THEN "" ELSE SubSeq(s, a, b)
At(s, i) == IF i >= 1 /\ i <= Len(s) THEN Sub(s, i, i) ELSE ""
From(s, i) == Sub(s, i, Len(s))

DigitChars == {"0", "1", "2", "3", "4", "5", "6", "7", "8", "9"}
UpperStr == "ABCDEFGHIJKLMNOPQRSTUVWXYZ"
LowerStr == "abcdefghijklmnopqrstuvwxyz"
UpperChars == {At(UpperStr, i) : i \in 1..Len(UpperStr)}
LowerChars == {At(LowerStr, i) : i \in 1..Len(LowerStr)}

\* \d, [A-Za-z], \s and \w of the regular expressions.
IsDigit(c) == c \in DigitChars
IsLetter(c) == c \in UpperChars \cup LowerChars
IsSpace(c) == c \in {" ", "\t", "\n", "\r"}
IsWordChar(c) == IsDigit(c) \/ IsLetter(c) \/ c = "_"

DigitVal(c) == CHOOSE d \in 0..9 : At("0123456789", d + 1) = c

ToLowerChar(c) ==
  IF c \in UpperChars
  THEN At(LowerStr, CHOOSE i \in 1..Len(UpperStr) : At(UpperStr, i) = c)
  ELSE c

RECURSIVE ToLowerCase(_)
ToLowerCase(s) ==
  IF s = "" THEN "" ELSE ToLowerChar(At(s, 1)) \o ToLowerCase(From(s, 2))

\* String.prototype.includes
Includes(s, k) ==
  \E i \in 1..(Len(s) - Len(k) + 1) : Sub(s, i, i + Len(k) - 1) = k

\* The number of consecutive digits / white-space / word characters from i.
RECURSIVE DigitRun(_, _)
DigitRun(s, i) == IF IsDigit(At(s, i)) THEN 1 + DigitRun(s, i + 1) ELSE 0

RECURSIVE SpaceRun(_, _)
SpaceRun(s, i) == IF IsSpace(At(s, i)) THEN 1 + SpaceRun(s, i + 1) ELSE 0

RECURSIVE WordRun(_, _)
WordRun(s, i) == IF IsWordChar(At(s, i)) THEN 1 + WordRun(s, i + 1) ELSE 0

\* String.prototype.trim
RECURSIVE TrimStart(_)
TrimStart(s) == IF IsSpace(At(s, 1)) THEN TrimStart(From(s, 2)) ELSE s

RECURSIVE TrimEnd(_)
TrimEnd(s) ==
  IF IsSpace(At(s, Len(s))) THEN TrimEnd(Sub(s, 1, Len(s) - 1)) ELSE s

Trim(s) == TrimEnd(TrimStart(s))

\* s.replace(/\s+/g, ' ')
RECURSIVE CollapseSpaces(_)
CollapseSpaces(s) ==
  IF s = "" THEN ""
  ELSE IF IsSpace(At(s, 1))
       THEN " " \o CollapseSpaces(From(s, 1 + SpaceRun(s, 1)))
       ELSE At(s, 1) \o CollapseSpaces(From(s, 2))

\* s.replace(/\s{2,}/g, ' ')
RECURSIVE CollapseSpaceRuns(_)
CollapseSpaceRuns(s) ==
  IF s = "" THEN ""
  ELSE IF SpaceRun(s, 1) >= 2
       THEN " " \o CollapseSpaceRuns(From(s, 1 + SpaceRun(s, 1)))
       ELSE At(s, 1) \o CollapseSpaceRuns(From(s, 2))

\* s.replace(/\s+/g, '')
RECURSIVE RemoveSpaces(_)
RemoveSpaces(s) ==
  IF s = "" THEN ""
  ELSE (IF IsSpace(At(s, 1)) THEN "" ELSE At(s, 1)) \o RemoveSpaces(From(s, 2))

\* s.replace(/\$/g, '')
RECURSIVE RemoveDollars(_)
RemoveDollars(s) ==
  IF s = "" THEN ""
  ELSE (IF At(s, 1) = "$" THEN "" ELSE At(s, 1)) \o RemoveDollars(From(s, 2))

\* s.split(/\r?\n/)
RECURSIVE SplitLines(_)
SplitLines(s) ==
  IF ~Includes(s, "\n") THEN <<s>>
  ELSE LET n == CHOOSE i \in 1..Len(s) :
                  At(s, i) = "\n" /\ \A j \in 1..(i - 1) : At(s, j) # "\n"
           e == IF At(s, n - 1) = "\r" THEN n - 2 ELSE n - 1
       IN  <<Sub(s, 1, e)>> \o SplitLines(From(s, n + 1))

(***************************************************************************)
(* Numbers.                                                                *)
(***************************************************************************)
Abs(n) == IF n < 0 THEN -n ELSE n

\* The integer a digit string denotes (Number.parseInt(s, 10) on digits).
RECURSIVE DigitsToInt(_)
DigitsToInt(s) ==
  IF s = "" THEN 0
  ELSE 10 * DigitsToInt(Sub(s, 1, Len(s) - 1)) + DigitVal(At(s, Len(s)))

\* The thousandths a fraction's digit string denotes ("5" is 500).
FractionToScaled(s) == DigitsToInt(Sub(s \o "000", 1, 3))

\* Number.parseFloat: white space, a sign, digits, a point and digits; what
\* follows is ignored; NaN (here None) without a digit.
ParseFloat(str) ==
  LET s == TrimStart(str)
      neg == At(s, 1) = "-"
      i == IF At(s, 1) \in {"-", "+"} THEN 2 ELSE 1
      ni == DigitRun(s, i)
      hasPoint == At(s, i + ni) = "."
      nf == IF hasPoint THEN DigitRun(s, i + ni + 1) ELSE 0
      mag == Scale * DigitsToInt(Sub(s, i, i + ni - 1))
               + FractionToScaled(Sub(s, i + ni + 1, i + ni + nf))
  IN  IF ni + nf = 0 THEN None ELSE Some(IF neg THEN -mag ELSE mag)

\* a / b rounded to the nearest integer, halves away from zero.
RoundDiv(a, b) ==
  LET n == IF b < 0 THEN -a ELSE a
      d == Abs(b)
  IN  IF n >= 0 THEN (2 * n + d) \div (2 * d) ELSE -((2 * (-n) + d) \div (2 * d))

\* Number.parseFloat(x.toFixed(2)) for x, for x = a * b and for x = a / b.
Round2(x) == 10 * RoundDiv(x, 10)
Round2Product(a, b) == 10 * RoundDiv(a * b, 10 * Scale)
Round2Quotient(a, b) == 10 * RoundDiv(a * 100, b)

\* String(n) for an integer n >= 0.
RECURSIVE NatToString(_)
NatToString(n) ==
  IF n < 10 THEN At("0123456789", n + 1)
  ELSE NatToString(n \div 10) \o At("0123456789", (n % 10) + 1)

\* x.toFixed(2)
ToFixed2(x) ==
  LET c == RoundDiv(x, 10)
      m == Abs(c)
  IN  (IF c < 0 THEN "-" ELSE "") \o NatToString(m \div 100) \o "."
        \o NatToString((m % 100) \div 10) \o NatToString(m % 10)

(***************************************************************************)
(* The OCR line parser: src/lib/receipt-ocr.ts.                            *)
(***************************************************************************)
IGNORE_LINE_KEYWORDS ==
  <<"subtotal", "tax", "total", "balance", "change", "cash", "visa",
    "mastercard", "amex", "amount", "tip", "gratuity", "loyalty", "pts",
    "coupon", "discount", "gst", "pst", "hst">>

TAX_CODE_SUFFIXES == <<"MRJ", "HMRJ", "HST", "GST", "PST", "Q", "R", "T">>

\* i advanced over \s*.
SkipSpaces(s, i) == i + SpaceRun(s, i)

\* The length of the match of \d{1,6}[.,]\d{2} that starts at i with a run of
\* `run` digits, or 0.
AmountLenOfRun(s, i, run) ==
  IF /\ run \in 1..6
     /\ At(s, i + run) \in {".", ","}
     /\ IsDigit(At(s, i + run + 1))
     /\ IsDigit(At(s, i + run + 2))
  THEN run + 3 ELSE 0

AmountLenAt(s, i) == AmountLenOfRun(s, i, DigitRun(s, i))

\* The length of the match of PRICE_PATTERN, -?\d{1,6}[.,]\d{2}, at i, or 0.
PriceLenAt(s, i) ==
  IF At(s, i) = "-"
  THEN (IF AmountLenAt(s, i + 1) > 0 THEN 1 + AmountLenAt(s, i + 1) ELSE 0)
  ELSE AmountLenAt(s, i)

\* Array.from(s.matchAll(PRICE_PATTERN)) from position i on: the matches left
\* to right, none overlapping; index is the match's 0-based offset.
RECURSIVE PriceMatchesFrom(_, _)
PriceMatchesFrom(s, i) ==
  LET n == PriceLenAt(s, i)
  IN  IF i > Len(s) THEN <<>>
      ELSE IF n > 0
           THEN <<[index |-> i - 1, text |-> Sub(s, i, i + n - 1)]>>
                  \o PriceMatchesFrom(s, i + n)
           ELSE PriceMatchesFrom(s, i + 1)

PriceMatches(s) == PriceMatchesFrom(s, 1)

\* The index of the first c in s (s holds one).
RECURSIVE IndexOf(_, _)
IndexOf(s, c) == IF At(s, 1) = c THEN 1 ELSE 1 + IndexOf(From(s, 2), c)

\* value.replace(',', '.'): the first comma only.
ReplaceFirstComma(s) ==
  IF ~Includes(s, ",") THEN s
  ELSE Sub(s, 1, IndexOf(s, ",") - 1) \o "." \o From(s, IndexOf(s, ",") + 1)

parseMoney(value) == ParseFloat(ReplaceFirstComma(value))

\* line 42: some keyword is a substring of the lowered line.
IncludesKeyword(lower) ==
  \E k \in 1..Len(IGNORE_LINE_KEYWORDS) : Includes(lower, IGNORE_LINE_KEYWORDS[k])

\* A filter that compares the line as written, capitals included.
shouldIgnoreLineCaseSensitive(line) == IncludesKeyword(line)

\* lines 40-43
shouldIgnoreLine(line) == IncludesKeyword(ToLowerCase(line))

hasLetters(line) == \E i \in 1..Len(line) : IsLetter(At(line, i))

\* /^\d{2,}-[A-Z]/i
looksLikeCategoryHeader(line) ==
  LET run == DigitRun(line, 1)
  IN  run >= 2 /\ At(line, run + 1) = "-" /\ IsLetter(At(line, run + 2))

\* The position after \(?\d+\)? matched at the start of t, or 0.
CodeEnd(t) ==
  LET i == IF At(t, 1) = "(" THEN 2 ELSE 1
      run == DigitRun(t, i)
  IN  IF run = 0 THEN 0
      ELSE IF At(t, i + run) = ")" THEN i + run + 1 ELSE i + run

\* /^\(?\d+\)?$/ on the line without its white space.
CodeOnly(compact) == CodeEnd(compact) = Len(compact) + 1
looksLikeCodeOnly(line) == CodeOnly(RemoveSpaces(line))

\* t.replace(/^\(?\d+\)?\s+/, '')
StripCode(t) ==
  LET j == CodeEnd(t)
  IN  IF j > 0 /\ SpaceRun(t, j) >= 1 THEN From(t, SkipSpaces(t, j)) ELSE t

\* t.replace(/^\d{6,}\s+/, '')
StripLongCode(t) ==
  LET run == DigitRun(t, 1)
  IN  IF run >= 6 /\ SpaceRun(t, run + 1) >= 1
      THEN From(t, SkipSpaces(t, run + 1)) ELSE t

stripLeadingCodes(line) == Trim(StripLongCode(StripCode(Trim(line))))

\* Whether line ends with white space and then code, in any case.
EndsWithCode(line, code) ==
  /\ Len(line) > Len(code)
  /\ ToLowerCase(From(line, Len(line) - Len(code) + 1)) = ToLowerCase(code)
  /\ IsSpace(At(line, Len(line) - Len(code)))

\* line.replace(/\s+(MRJ|HMRJ|HST|GST|PST|Q|R|T)$/i, ''): a code that ends the
\* line is cut with the white space before it.
stripTaxCodeSuffix(line) ==
  LET hits == {k \in 1..Len(TAX_CODE_SUFFIXES) : EndsWithCode(line, TAX_CODE_SUFFIXES[k])}
  IN  IF hits = {} THEN line
      ELSE TrimEnd(Sub(line, 1, Len(line) - Len(TAX_CODE_SUFFIXES[CHOOSE h \in hits : TRUE])))

IsKgLb(s) == ToLowerCase(s) \in {"kg", "lb"}

\* \d{1,6}[.,]\d{2} at c: the position after it and its text, or None.
AmountAt(s, c) ==
  LET n == AmountLenAt(s, c)
  IN  IF n > 0 THEN Some([end |-> c + n, price |-> Sub(s, c, c + n - 1)]) ELSE None

\* b advanced over \$?\s*.
SkipDollar(s, b) == IF At(s, b) = "$" THEN SkipSpaces(s, b + 1) ELSE b

\* @\s*\$?\s*(\d{1,6}[.,]\d{2}) at a, and the same after \s*, at i.
AtSignPriceAt(s, a) ==
  IF At(s, a) = "@" THEN AmountAt(s, SkipDollar(s, SkipSpaces(s, a + 1))) ELSE None
AtPriceAt(s, i) == AtSignPriceAt(s, SkipSpaces(s, i))

\* The length of \d+(?:\.\d+)? at i, or 0.
DecimalLenAt(s, i) ==
  LET run == DigitRun(s, i)
  IN  IF run = 0 THEN 0
      ELSE IF At(s, i + run) = "." /\ DigitRun(s, i + run + 1) >= 1
           THEN run + 1 + DigitRun(s, i + run + 1)
           ELSE run

\* What a unit pattern captured: None without a price.
UnitCapture(qty, m) ==
  IF m = None THEN None ELSE Some([qty |-> qty, price |-> Val(m).price])

\* (kg|lb)\s*@\s*\$?\s*(\d{1,6}[.,]\d{2}) at u, after the number qty.
WeightUnitAt(s, u, qty) ==
  IF IsKgLb(Sub(s, u, u + 1)) THEN UnitCapture(qty, AtPriceAt(s, u + 2)) ELSE None

\* /(\d+(?:\.\d+)?)\s*(kg|lb)\s*@\s*\$?\s*(\d{1,6}[.,]\d{2})/i at i.
WeightMatchAt(s, i) ==
  LET n == DecimalLenAt(s, i)
  IN  IF n = 0 THEN None
      ELSE WeightUnitAt(s, SkipSpaces(s, i + n), Sub(s, i, i + n - 1))

\* /(\d+)\s*@\s*\$?\s*(\d{1,6}[.,]\d{2})/i at i.
UnitMatchAt(s, i) ==
  LET n == DigitRun(s, i)
  IN  IF n = 0 THEN None
      ELSE UnitCapture(Sub(s, i, i + n - 1), AtPriceAt(s, i + n))

\* The leftmost match of each pattern in s from position i on.
RECURSIVE FirstWeightMatch(_, _)
FirstWeightMatch(s, i) ==
  LET m == WeightMatchAt(s, i)
  IN  IF i > Len(s) THEN None
      ELSE IF m # None THEN m ELSE FirstWeightMatch(s, i + 1)

RECURSIVE FirstUnitMatch(_, _)
FirstUnitMatch(s, i) ==
  LET m == UnitMatchAt(s, i)
  IN  IF i > Len(s) THEN None
      ELSE IF m # None THEN m ELSE FirstUnitMatch(s, i + 1)

\* The UnitLine of a weight match, of a unit match, or null.
UnitLineOf(weightMatch, unitMatch) ==
  IF weightMatch # None
  THEN Some([qty |-> ParseFloat(Val(weightMatch).qty),
             unitPrice |-> parseMoney(Val(weightMatch).price)])
  ELSE IF unitMatch # None
       THEN Some([qty |-> Some(Scale * DigitsToInt(Val(unitMatch).qty)),
                  unitPrice |-> parseMoney(Val(unitMatch).price)])
       ELSE None

parseUnitLine(line) == UnitLineOf(FirstWeightMatch(line, 1), FirstUnitMatch(line, 1))

\* line.replace(/[0-9.,\s@$]/g, '')
RECURSIVE StripUnitChars(_)
StripUnitChars(s) ==
  IF s = "" THEN ""
  ELSE (IF IsDigit(At(s, 1)) \/ IsSpace(At(s, 1)) \/ At(s, 1) \in {".", ",", "@", "$"}
        THEN "" ELSE At(s, 1)) \o StripUnitChars(From(s, 2))

\* s.replace(/kg|lb/gi, '')
RECURSIVE RemoveKgLb(_)
RemoveKgLb(s) ==
  IF s = "" THEN ""
  ELSE IF IsKgLb(Sub(s, 1, 2)) THEN RemoveKgLb(From(s, 3))
       ELSE At(s, 1) \o RemoveKgLb(From(s, 2))

\* s.replace(/\/(kg|lb)/gi, '')
RECURSIVE RemoveSlashKgLb(_)
RemoveSlashKgLb(s) ==
  IF s = "" THEN ""
  ELSE IF At(s, 1) = "/" /\ IsKgLb(Sub(s, 2, 3)) THEN RemoveSlashKgLb(From(s, 4))
       ELSE At(s, 1) \o RemoveSlashKgLb(From(s, 2))

isUnitOnlyLine(line, unit) ==
  IF unit = None THEN FALSE
  ELSE Len(RemoveSlashKgLb(RemoveKgLb(StripUnitChars(line)))) = 0

\* u advanced over (kg|lb)?, and p over (?:\/\w+)?.
SkipKgLb(s, u) == IF IsKgLb(Sub(s, u, u + 1)) THEN u + 2 ELSE u
SkipPerUnit(s, p) ==
  IF At(s, p) = "/" /\ WordRun(s, p + 1) >= 1 THEN p + 1 + WordRun(s, p + 1) ELSE p

\* The fragment's end q when the closing \b holds there, or 0.
FragmentClose(s, q) == IF IsWordChar(At(s, q)) THEN 0 ELSE q

\* The end of ...@\s*\$?\s*\d{1,6}[.,]\d{2}(?:\/\w+)?\b given the amount m.
FragmentAfterPrice(s, m) ==
  IF m = None THEN 0 ELSE FragmentClose(s, SkipPerUnit(s, Val(m).end))

\* The position after the match of
\* /\b\d+(?:\.\d+)?\s*(kg|lb)?\s*@\s*\$?\s*\d{1,6}[.,]\d{2}(?:\/\w+)?\b/i
\* that starts at i, or 0.
FragmentEndAt(s, i) ==
  LET n == DecimalLenAt(s, i)
  IN  IF n = 0 \/ IsWordChar(At(s, i - 1)) THEN 0
      ELSE FragmentAfterPrice(s, AtPriceAt(s, SkipKgLb(s, SkipSpaces(s, i + n))))

RECURSIVE FirstFragment(_, _)
FirstFragment(s, i) ==
  LET q == FragmentEndAt(s, i)
  IN  IF i > Len(s) THEN None
      ELSE IF q > 0 THEN Some([start |-> i, end |-> q])
           ELSE FirstFragment(s, i + 1)

\* line without the span m, when there is one.
CutSpan(line, m) ==
  IF m = None THEN line
  ELSE Sub(line, 1, Val(m).start - 1) \o From(line, Val(m).end)

removeUnitFragment(line) == CutSpan(line, FirstFragment(line, 1))

\* description.match(/^(\d+)\s+(.*)$/)
QtyMatch(description) ==
  LET run == DigitRun(description, 1)
  IN  IF run >= 1 /\ SpaceRun(description, run + 1) >= 1
      THEN Some([qty |-> Sub(description, 1, run),
                 rest |-> From(description, SkipSpaces(description, run + 1))])
      ELSE None

\* The lines of the text, each with its white space collapsed and trimmed.
RECURSIVE CleanLines(_)
CleanLines(ls) ==
  IF ls = <<>> THEN <<>>
  ELSE <<Trim(CollapseSpaces(Head(ls)))>> \o CleanLines(Tail(ls))

KeepLine(line) == Len(line) > 0 /\ ~shouldIgnoreLine(line)

\* The lines parseReceiptItems loops over: the empty and the ignored ones go.
NormalizedLines(text) == SelectSeq(CleanLines(SplitLines(text)), KeepLine)

\* lines 181-190: descriptionPart before the search for an inline unit: the
\* text before the last amount, without codes, tax suffix and unit fragment,
\* or the buffered description when that text has no letters.
WithoutFragment(text, unit) ==
  IF unit # None THEN removeUnitFragment(text) ELSE text

\* A choice that takes the buffered description whenever there is one.
PendingFirst(text, pendingDesc) ==
  IF pendingDesc # None /\ Val(pendingDesc) # "" THEN Val(pendingDesc) ELSE text

OrPending(text, pendingDesc) ==
  IF ~hasLetters(text) /\ pendingDesc # None /\ Val(pendingDesc) # ""
  THEN Val(pendingDesc) ELSE text

LineDescription(sanitized, lastIndex, unit, pendingDesc) ==
  Trim(CollapseSpaceRuns(
    OrPending(
      WithoutFragment(
        stripTaxCodeSuffix(stripLeadingCodes(Trim(Sub(sanitized, 1, lastIndex)))),
        unit),
      pendingDesc)))

\* A parser that drops the buffered unit line instead of applying it.
FillFromNothing(own, pendingU, field) == own

\* lines 212-224: the buffered unit fills the null fields, then a missing unit
\* price is derived from a positive quantity.
FillFrom(own, pendingU, field) ==
  IF pendingU # None /\ own = None /\ Val(pendingU)[field] # None
  THEN Val(pendingU)[field] ELSE own

DerivePrice(price, qty, lineTotal) ==
  IF price = None /\ qty # None /\ Val(qty) > 0
  THEN Some(Round2Quotient(lineTotal, Val(qty))) ELSE price

Resolve(description, ownQty, ownPrice, lineTotal, pendingU) ==
  [description |-> description,
   qty |-> FillFrom(ownQty, pendingU, "qty"),
   unitPrice |-> DerivePrice(FillFrom(ownPrice, pendingU, "unitPrice"),
                             FillFrom(ownQty, pendingU, "qty"), lineTotal),
   lineTotal |-> Some(lineTotal)]

\* lines 198-205: the description once an inline unit has been taken out of it.
AfterInlineUnit(descriptionPart, inlineUnit) ==
  IF inlineUnit # None THEN Trim(Trim(removeUnitFragment(descriptionPart)))
  ELSE Trim(descriptionPart)

\* lines 196-210: the quantity the line itself gives: a leading integer of the
\* description, else the inline unit's.
QtyOf(inlineUnit, qtyMatch) ==
  IF qtyMatch # None THEN Some(Scale * DigitsToInt(Val(qtyMatch).qty))
  ELSE IF inlineUnit # None THEN Val(inlineUnit).qty ELSE None

OwnQty(descriptionPart) ==
  QtyOf(parseUnitLine(descriptionPart),
        QtyMatch(AfterInlineUnit(descriptionPart, parseUnitLine(descriptionPart))))

\* lines 195-203: the unit price the line itself gives: the inline unit's.
PriceOf(inlineUnit) == IF inlineUnit # None THEN Val(inlineUnit).unitPrice ELSE None

OwnUnitPrice(descriptionPart) == PriceOf(parseUnitLine(descriptionPart))

\* lines 205-210: the description without its leading quantity.
DescriptionOf(text, qtyMatch) ==
  IF qtyMatch # None THEN Trim(Val(qtyMatch).rest) ELSE text

ItemDescription(text) == DescriptionOf(text, QtyMatch(text))

\* The item parseReceiptItems pushes for a description that has letters.
BuildItem(descriptionPart, lineTotal, pendingU) ==
  Resolve(ItemDescription(AfterInlineUnit(descriptionPart, parseUnitLine(descriptionPart))),
          OwnQty(descriptionPart), OwnUnitPrice(descriptionPart), lineTotal, pendingU)

\* A backfill that writes over the values the item has.
BackfillOverwriting(lastItem, unit) ==
  [lastItem EXCEPT !.qty = Val(unit).qty, !.unitPrice = Val(unit).unitPrice]

\* lastItem after a unit line backfills it: only the null fields are set.
Backfill(lastItem, unit) ==
  [lastItem EXCEPT
     !.qty = IF lastItem.qty = None /\ Val(unit).qty # None
             THEN Val(unit).qty ELSE @,
     !.unitPrice = IF lastItem.unitPrice = None /\ Val(unit).unitPrice # None
                   THEN Val(unit).unitPrice ELSE @]

(***************************************************************************)
(* Dates: src/unnamed/part_000.  A Date is a record of the day number      *)
(* (days since 1970-01-01) and the second of the day, both in local time.  *)
(***************************************************************************)
\* new Date(year, month, 1): the day number of the first of a month, month
\* counted from 1 (the days-from-civil computation).
DaysFromCivil(y, m, d) ==
  LET yy == IF m <= 2 THEN y - 1 ELSE y
      doy == (153 * (IF m > 2 THEN m - 3 ELSE m + 9) + 2) \div 5 + d - 1
  IN  (yy \div 400) * 146097
        + (yy % 400) * 365 + (yy % 400) \div 4 - (yy % 400) \div 100 + doy
        - 719468

\* getFullYear, getMonth + 1 and getDate of a day number.
CivilOfMonth(y, doy, mp) ==
  [year |-> IF mp < 10 THEN y ELSE y + 1,
   month |-> IF mp < 10 THEN mp + 3 ELSE mp - 9,
   day |-> doy - (153 * mp + 2) \div 5 + 1]

CivilOfDayOfYear(y, doy) == CivilOfMonth(y, doy, (5 * doy + 2) \div 153)

CivilOfYearOfEra(era, doe, yoe) ==
  CivilOfDayOfYear(yoe + era * 400, doe - (365 * yoe + yoe \div 4 - yoe \div 100))

CivilOfEra(era, doe) ==
  CivilOfYearOfEra(era, doe,
    (doe - doe \div 1460 + doe \div 36524 - doe \div 146096) \div 365)

CivilFromDays(z) == CivilOfEra((z + 719468) \div 146097, (z + 719468) % 146097)

\* The Date constructor reads a year of 0..99 as 1900 + year.
FullYear(year) == IF year >= 0 /\ year <= 99 THEN 1900 + year ELSE year

DateOfDayAndSeconds(days, secs) ==
  [day |-> days + secs \div 86400, sec |-> secs % 86400]

\* new Date(year, month, day, hour, minute, second), month counted from 0: a
\* component outside its range carries into the next larger one.
NewDate(year, month, day, hour, minute, second) ==
  DateOfDayAndSeconds(
    DaysFromCivil(FullYear(year) + month \div 12, (month % 12) + 1, 1) + day - 1,
    hour * 3600 + minute * 60 + second)

\* Number.isNaN(date.getTime()) is false within 100,000,000 days of the epoch.
IsValidDate(date) == Abs(date.day) < 10000 * 10000

\* lines 38-48
buildDate(year, month, day, hour, minute, second) ==
  IF IsValidDate(NewDate(year, month, day, hour, minute, second))
  THEN Some(NewDate(year, month, day, hour, minute, second))
  ELSE None

\* date.getTime() of a and of b differ by at most toleranceMs.
TimesWithin(a, b, toleranceMs) ==
  /\ Abs(a.day - b.day) <= 1 + toleranceMs \div 86400000
  /\ Abs((a.day - b.day) * 86400 + a.sec - b.sec) * 1000 <= toleranceMs

\* [\/.-]
IsDateSep(c) == c \in {"/", ".", "-"}

\* The length of the (\d{1,2}) at i that a separator follows, or 0.
ShortNumberOfRun(s, i, run) ==
  IF run \in {1, 2} /\ IsDateSep(At(s, i + run)) THEN run ELSE 0

ShortNumberLen(s, i) == ShortNumberOfRun(s, i, DigitRun(s, i))

AtMost(n, max) == IF n > max THEN max ELSE n

\* (?:\s*(AM|PM))? at e, after a time that ends before e.
MeridiemOf(lower) ==
  IF lower = "am" THEN Some("AM") ELSE IF lower = "pm" THEN Some("PM") ELSE None

MeridiemAt(s, i) == MeridiemOf(ToLowerCase(Sub(s, i, i + 1)))

TimeOf(hour, minute, second, meridiem, e, m) ==
  [hour |-> hour, minute |-> minute, second |-> second, meridiem |-> meridiem,
   end |-> IF meridiem = None THEN e ELSE m + 2]

TimeWithMeridiem(s, hour, minute, second, e) ==
  TimeOf(hour, minute, second, MeridiemAt(s, SkipSpaces(s, e)), e, SkipSpaces(s, e))

\* (?::(\d{2}))? at e.
TimeWithSeconds(s, hour, minute, e) ==
  IF At(s, e) = ":" /\ DigitRun(s, e + 1) >= 2
  THEN TimeWithMeridiem(s, hour, minute, Some(DigitsToInt(Sub(s, e + 1, e + 2))), e + 3)
  ELSE TimeWithMeridiem(s, hour, minute, None, e)

\* (\d{1,2}):(\d{2}) with the hour's n digits at h.
TimeFromHour(s, h, n) ==
  IF n \in {1, 2} /\ At(s, h + n) = ":" /\ DigitRun(s, h + n + 1) >= 2
  THEN Some(TimeWithSeconds(s, DigitsToInt(Sub(s, h, h + n - 1)),
                            DigitsToInt(Sub(s, h + n + 1, h + n + 2)), h + n + 3))
  ELSE None

\* The optional time of the patterns at p:
\* (?:\s+(\d{1,2}):(\d{2})(?::(\d{2}))?(?:\s*(AM|PM))?)?
TimeAt(s, p) ==
  IF SpaceRun(s, p) >= 1
  THEN TimeFromHour(s, SkipSpaces(s, p), DigitRun(s, SkipSpaces(s, p)))
  ELSE None

\* A match: the three numbers of the date, the time and the end of the match.
DateMatchWithTime(first, second, third, e, time) ==
  [first |-> first, second |-> second, third |-> third, time |-> time,
   end |-> IF time = None THEN e ELSE Val(time).end]

DateMatch(s, first, second, third, e) ==
  DateMatchWithTime(first, second, third, e, TimeAt(s, e))

\* [\/.-](\d{1,2}) and the time, the number's digits at d: the tail of the
\* ymd pattern and of the current-year pattern.
NumberOfLength(s, first, second, d, len) ==
  IF len >= 1
  THEN Some(DateMatch(s, first, second, DigitsToInt(Sub(s, d, d + len - 1)), d + len))
  ELSE None

LastShortNumber(s, first, second, d) ==
  NumberOfLength(s, first, second, d, AtMost(DigitRun(s, d), 2))

MiddleOfLength(s, first, m, len) ==
  IF len > 0
  THEN LastShortNumber(s, first, DigitsToInt(Sub(s, m, m + len - 1)), m + len + 1)
  ELSE None

MiddleShortNumber(s, first, m) == MiddleOfLength(s, first, m, ShortNumberLen(s, m))

\* DATE_PATTERNS[0], ymd, matched at i (lines 7-11).
YmdAt(s, i) ==
  IF DigitRun(s, i) >= 4 /\ IsDateSep(At(s, i + 4))
  THEN MiddleShortNumber(s, DigitsToInt(Sub(s, i, i + 3)), i + 5)
  ELSE None

\* [\/.-](\d{2,4}) and the time, the year's digits at y.
YearOfLength(s, first, second, y, len) ==
  IF len >= 2
  THEN Some(DateMatch(s, first, second, DigitsToInt(Sub(s, y, y + len - 1)), y + len))
  ELSE None

DmyYear(s, first, second, y) ==
  YearOfLength(s, first, second, y, AtMost(DigitRun(s, y), 4))

DmySecondOfLength(s, first, m, len) ==
  IF len > 0
  THEN DmyYear(s, first, DigitsToInt(Sub(s, m, m + len - 1)), m + len + 1)
  ELSE None

DmyFirstOfLength(s, i, len) ==
  IF len > 0
  THEN DmySecondOfLength(s, DigitsToInt(Sub(s, i, i + len - 1)), i + len + 1,
                         ShortNumberLen(s, i + len + 1))
  ELSE None

\* DATE_PATTERNS[1], dmy, matched at i (lines 12-16).
DmyAt(s, i) == DmyFirstOfLength(s, i, ShortNumberLen(s, i))

\* normalized.match(pattern.regex): the leftmost match.
RECURSIVE FirstYmd(_, _)
YmdFrom(s, i, m) == IF m # None THEN m ELSE FirstYmd(s, i + 1)
FirstYmd(s, i) == IF i > Len(s) THEN None ELSE YmdFrom(s, i, YmdAt(s, i))

RECURSIVE FirstDmy(_, _)
DmyFrom(s, i, m) == IF m # None THEN m ELSE FirstDmy(s, i + 1)
FirstDmy(s, i) == IF i > Len(s) THEN None ELSE DmyFrom(s, i, DmyAt(s, i))

\* The current-year pattern of lines 52-54: it spans the whole string.
WholeString(s, m) == IF m # None /\ Val(m).end = Len(s) + 1 THEN m ELSE None

ShortYearMatch(s) ==
  WholeString(s, IF DigitRun(s, 1) >= 2 /\ IsDateSep(At(s, 3))
                 THEN MiddleShortNumber(s, DigitsToInt(Sub(s, 1, 2)), 4)
                 ELSE None)

\* lines 61-73 and 117-129: the time of day, 0:00:00 without a time.
Hour24(hour, meridiem) ==
  IF meridiem = Some("PM") /\ hour < 12 THEN hour + 12
  ELSE IF meridiem = Some("AM") /\ hour = 12 THEN 0
  ELSE hour

SecondOf(second) == IF second = None THEN 0 ELSE Val(second)

\* The arguments of buildDate: month counted from 0.
DateFields(year, month, day, time) ==
  [year |-> year, month |-> month, day |-> day,
   hour |-> IF time = None THEN 0 ELSE Hour24(Val(time).hour, Val(time).meridiem),
   minute |-> IF time = None THEN 0 ELSE Val(time).minute,
   second |-> IF time = None THEN 0 ELSE SecondOf(Val(time).second)]

\* lines 57-75
ShortYearFields(m) == DateFields(2000 + m.first, m.second - 1, m.third, m.time)

\* lines 93-96
YmdFields(m) == DateFields(m.first, m.second - 1, m.third, m.time)

\* lines 98-114
DmyFullYear(rawYear) == IF rawYear < 100 THEN rawYear + 2000 ELSE rawYear

\* A dmy reading that always takes the first number as the day.
DayFirstFields(m) == DateFields(DmyFullYear(m.third), m.second - 1, m.first, m.time)

DmyFields(m) ==
  IF m.first > 12 /\ m.second <= 12
  THEN DateFields(DmyFullYear(m.third), m.second - 1, m.first, m.time)
  ELSE IF m.second > 12 /\ m.first <= 12
       THEN DateFields(DmyFullYear(m.third), m.first - 1, m.second, m.time)
       ELSE DateFields(DmyFullYear(m.third), m.second - 1, m.first, m.time)

BuiltFrom(f) == buildDate(f.year, f.month, f.day, f.hour, f.minute, f.second)

\* line 33
NormalizedDateText(value) == Trim(CollapseSpaces(value))

\* A current-year reading that takes any two-digit year.
ReadsAnyShortYear(short, prefer, thisYear) ==
  prefer /\ short # None /\ BuiltFrom(ShortYearFields(Val(short))) # None

\* lines 50-81: the current-year reading returns.
ReadsShortYear(short, prefer, thisYear) ==
  /\ prefer
  /\ short # None
  /\ Val(short).first = thisYear % 100
  /\ BuiltFrom(ShortYearFields(Val(short))) # None

\* lines 83-135: the first pattern that matches and builds a date returns.
ReadsYmd(ymd) == ymd # None /\ BuiltFrom(YmdFields(Val(ymd))) # None
ReadsDmy(dmy) == dmy # None /\ BuiltFrom(DmyFields(Val(dmy))) # None

\* The reading that returns, by the matches of the three patterns: its name
\* and the arguments it hands to buildDate; "none" when the string is left to
\* new Date(normalized) at line 137.
ReadingOf(short, ymd, dmy, prefer, thisYear) ==
  IF ReadsShortYear(short, prefer, thisYear)
  THEN [name |-> "short", fields |-> Some(ShortYearFields(Val(short)))]
  ELSE IF ReadsYmd(ymd) THEN [name |-> "ymd", fields |-> Some(YmdFields(Val(ymd)))]
  ELSE IF ReadsDmy(dmy) THEN [name |-> "dmy", fields |-> Some(DmyFields(Val(dmy)))]
  ELSE [name |-> "none", fields |-> None]

PatternReading(normalized, prefer, thisYear) ==
  ReadingOf(ShortYearMatch(normalized), FirstYmd(normalized, 1), FirstDmy(normalized, 1),
            prefer, thisYear)

\* new Date(normalized), line 137, is left to the JavaScript engine for a
\* string that is not in the ISO format: it yields an invalid date (null) or
\* some date of the engine's choice.
EngineDate == [day |-> 0, sec |-> 0]
EngineParses == {None, Some(EngineDate)}

\* parseFlexibleDateTime on a string one of the patterns reads, as the
\* database code calls it: without options.
DateOfReading(reading) ==
  IF reading.fields = None THEN None ELSE BuiltFrom(Val(reading.fields))

parseFlexibleDateTime(value) ==
  DateOfReading(PatternReading(NormalizedDateText(value), FALSE, 0))

\* lines 19 and 141-145
pad2(value) == IF value < 10 THEN "0" \o NatToString(value) ELSE NatToString(value)

FormatCivil(civil, sec) ==
  NatToString(civil.year) \o "-" \o pad2(civil.month) \o "-" \o pad2(civil.day)
    \o " " \o pad2(sec \div 3600) \o ":" \o pad2((sec % 3600) \div 60)
    \o ":" \o pad2(sec % 60)

formatDateTimeLocal(date) == FormatCivil(CivilFromDays(date.day), date.sec)

\* lines 155-161, on a text one of the patterns reads: the reading that
\* prefers the current year, formatted.
normalizeReceiptDateTimeFromScan(value, thisYear) ==
  IF DateOfReading(PatternReading(NormalizedDateText(value), TRUE, thisYear)) = None
  THEN None
  ELSE Some(formatDateTimeLocal(
         Val(DateOfReading(PatternReading(NormalizedDateText(value), TRUE, thisYear)))))

\* lines 26-27
startOfDay(date) == [day |-> date.day, sec |-> 0]

\* lines 29-30: 23:59:59.999, the last second of the day.
endOfDay(date) == [day |-> date.day, sec |-> 86399]

\* a < b on two Dates.
IsBefore(a, b) == a.day < b.day \/ (a.day = b.day /\ a.sec < b.sec)
(***************************************************************************)
(* The receipts table: src/lib/db.ts.  A receipt carries the columns the   *)
(* operations below read: purchase_datetime, subtotal, tax and total; a    *)
(* row adds id and dedupe_key.                                             *)
(***************************************************************************)
\* One cent.
Cent == Scale \div 100

Amount(units, cents) == Some(units * Scale + cents * Cent)

\* The receipts the screens and the backups bring.
NewReceipts ==
  {[purchase_datetime |-> "2025-03-01 10:00:00", subtotal |-> None, tax |-> None,
    total |-> Amount(10, 0)],
   [purchase_datetime |-> "2025-03-01 10:00:00", subtotal |-> Amount(9, 0),
    tax |-> Amount(1, 1), total |-> None],
   [purchase_datetime |-> "2025-02-28 23:59:30", subtotal |-> None, tax |-> None,
    total |-> Amount(0, 6)],
   [purchase_datetime |-> "2025-03-01 10:00:30", subtotal |-> None, tax |-> None,
    total |-> Amount(0, 7)]}

\* The candidates of the duplicate query.
CandidateDateTimes ==
  {"2025-03-01 10:00:00", "2025-03-01 10:00:30", "2025-03-01 10:01:00",
   "2025-03-01 10:02:00", "2025-03-01 00:00:30"}

CandidateTotals == {None, Amount(10, 0), Amount(10, 1), Amount(0, 7)}

\* parseFlexibleDateTime on the purchase datetimes of the model, each one
\* parsed once.
PurchaseDateTimes ==
  CandidateDateTimes \cup {r.purchase_datetime : r \in NewReceipts}

ParsedPurchaseDateTime == [text \in PurchaseDateTimes |-> parseFlexibleDateTime(text)]

\* lines 297-308
createReceiptDedupeKey(purchaseDateTime, total) ==
  IF purchaseDateTime = "" THEN None
  ELSE IF total = None THEN Some(purchaseDateTime)
  ELSE Some(purchaseDateTime \o "|" \o ToFixed2(Val(total)))

\* lines 68-70
InsertedDedupeKey(receipt, allowDuplicate) ==
  IF allowDuplicate THEN None
  ELSE createReceiptDedupeKey(receipt.purchase_datetime, receipt.total)

\* lines 72-96: the row the INSERT stores.
NewRow(id, receipt, allowDuplicate) ==
  [id |-> id,
   purchase_datetime |-> receipt.purchase_datetime,
   subtotal |-> receipt.subtotal,
   tax |-> receipt.tax,
   total |-> receipt.total,
   dedupe_key |-> InsertedDedupeKey(receipt, allowDuplicate)]

\* A table without the unique index.
NeverViolatesKey(rows, key) == FALSE

\* lines 321-325: idx_receipts_dedupe_key, unique over the non-null keys.
ViolatesUniqueKey(rows, key) == key # None /\ \E r \in rows : r.dedupe_key = key

\* lines 444-466: the UPDATE sets these columns and no other.
UpdatedRow(row, updates) ==
  [row EXCEPT !.purchase_datetime = updates.purchase_datetime,
              !.subtotal = updates.subtotal,
              !.tax = updates.tax,
              !.total = updates.total]

\* lines 254-264: the rows importReceiptBackup adds for the receipts of a
\* backup, the k-th with the k-th new id, each with allowDuplicate.
ImportedRows(backupReceipts, firstId) ==
  {NewRow(firstId + k - 1, backupReceipts[k], TRUE) : k \in 1..Len(backupReceipts)}

\* receiptIdMap: the new id of the last receipt that carries a legacy id.
HasMappedId(backupReceipts, legacyId) ==
  \E k \in 1..Len(backupReceipts) : backupReceipts[k].id = legacyId

MappedId(backupReceipts, firstId, legacyId) ==
  firstId - 1 + CHOOSE k \in 1..Len(backupReceipts) :
    /\ backupReceipts[k].id = legacyId
    /\ \A j \in (k + 1)..Len(backupReceipts) : backupReceipts[j].id # legacyId

\* lines 269-284: the positions of the backup's items whose receipt came
\* with the backup; the others are skipped.
ImportedItemIndexes(backup) ==
  {k \in 1..Len(backup.items) : HasMappedId(backup.receipts, backup.items[k].receipt_id)}

CountBelow(indexes, k) == Cardinality({j \in indexes : j < k})

ImportedItems(backup, firstId, firstItemId) ==
  {[id |-> firstItemId + CountBelow(ImportedItemIndexes(backup), k),
    receipt_id |-> MappedId(backup.receipts, firstId, backup.items[k].receipt_id)] :
     k \in ImportedItemIndexes(backup)}

\* lines 240-245
IsSupportedBackup(backup) == backup.version = 1

\* row.total ?? (subtotal and tax both known ? subtotal + tax : null)
RowTotal(row) ==
  IF row.total # None THEN row.total
  ELSE IF row.subtotal # None /\ row.tax # None
       THEN Some(Val(row.subtotal) + Val(row.tax))
       ELSE None

\* Of the amounts of the model that lie one cent apart, the lower ones whose
\* difference, computed on doubles, is at most the double 0.01:
\* 10.01 - 10.00 is 0.009999999999999787, 0.07 - 0.06 is 0.010000000000000009.
CentStepsWithinTolerance == {10 * Scale}

LowerOf(a, b) == IF a < b THEN a ELSE b

\* lines 359 and 397: Math.abs(normalized - roundedTotal) <= 0.01, on two
\* amounts of two decimals.
WithinCent(normalized, roundedTotal) ==
  IF Abs(normalized - roundedTotal) = Cent
  THEN LowerOf(normalized, roundedTotal) \in CentStepsWithinTolerance
  ELSE Abs(normalized - roundedTotal) < Cent

\* line 335
RoundedTotal(total) == IF total = None THEN None ELSE Some(Round2(Val(total)))

\* lines 350-360 and 388-397: a row passes on totals when either side has no
\* total, or the two totals are within a cent.
TotalMatches(row, roundedTotal) ==
  \/ roundedTotal = None
  \/ RowTotal(row) = None
  \/ WithinCent(Round2(Val(RowTotal(row))), Val(roundedTotal))

\* lines 337-366: the rows with the very purchase_datetime string.
ExactPhase(rows, purchaseDateTime, roundedTotal) ==
  \E row \in rows :
    row.purchase_datetime = purchaseDateTime /\ TotalMatches(row, roundedTotal)

\* lines 382-398, with the target's date
RowIsNear(row, target, toleranceMs) ==
  /\ ParsedPurchaseDateTime[row.purchase_datetime] # None
  /\ TimesWithin(Val(ParsedPurchaseDateTime[row.purchase_datetime]), target, toleranceMs)

\* lines 368-398: every row, by parsed time.
FuzzyPhase(rows, target, roundedTotal, toleranceMs) ==
  /\ target # None
  /\ \E row \in rows :
       RowIsNear(row, Val(target), toleranceMs) /\ TotalMatches(row, roundedTotal)

\* lines 328-399
hasReceiptWithPurchaseDate(rows, purchaseDateTime, total, toleranceMs) ==
  \/ ExactPhase(rows, purchaseDateTime, RoundedTotal(total))
  \/ FuzzyPhase(rows, ParsedPurchaseDateTime[purchaseDateTime], RoundedTotal(total),
                toleranceMs)

\* lines 401-439: a row with the very purchase_datetime string and, when a
\* total is given, a total, or a subtotal plus tax, within a cent of it.
hasPossibleDuplicateReceipt(rows, purchaseDateTime, total) ==
  IF purchaseDateTime = "" THEN FALSE
  ELSE IF total = None
       THEN \E row \in rows : row.purchase_datetime = purchaseDateTime
       ELSE \E row \in rows :
              /\ row.purchase_datetime = purchaseDateTime
              /\ RowTotal(row) # None
              /\ WithinCent(Val(RowTotal(row)), Round2(Val(total)))

(***************************************************************************)
(* Save-time reconciliation of an item: src/unnamed/part_006, lines        *)
(* 372-394 (the add-receipt screen) and src/app/receipt/[id].tsx, lines    *)
(* 143-166 (the receipt screen).                                           *)
(***************************************************************************)
\* part_006 lines 243-250, [id].tsx lines 61-68
parseOptionalNumber(value) ==
  IF Trim(value) = "" THEN None ELSE ParseFloat(Trim(value))

\* A reconciliation that recomputes the line total whenever it can.
RecomputedLineTotal(qty, unitPrice, lineTotal) ==
  IF qty # None /\ unitPrice # None
  THEN Some(Round2Product(Val(qty), Val(unitPrice)))
  ELSE lineTotal

\* lineTotalValue after part_006 lines 378-380, [id].tsx lines 148-150
DerivedLineTotal(qty, unitPrice, lineTotal) ==
  IF lineTotal = None /\ qty # None /\ unitPrice # None
  THEN Some(Round2Product(Val(qty), Val(unitPrice)))
  ELSE lineTotal

\* A quotient cut to two decimals instead of rounded.
TruncatedUnitPrice(lineTotal, qty) == 10 * ((lineTotal * 100) \div qty)

\* The quotient of part_006 line 384 and [id].tsx line 154 as line 390 / 162
\* stores it: lineTotalValue / qtyValue at two decimals.
DerivedUnitPrice(lineTotal, qty) == Round2Quotient(lineTotal, qty)

\* unit_price: part_006 lines 382-390, [id].tsx lines 152-162; a supplied
\* unit price goes through toFixed(2) as well.
StoredUnitPrice(qty, unitPrice, lineTotalValue) ==
  IF unitPrice # None THEN Some(Round2(Val(unitPrice)))
  ELSE IF lineTotalValue # None /\ qty # None /\ Val(qty) # 0
       THEN Some(DerivedUnitPrice(Val(lineTotalValue), Val(qty)))
       ELSE None

\* line_total: part_006 line 391 stores lineTotalValue as it is.
AddScreenLineTotal(lineTotalValue) == lineTotalValue

\* line_total: [id].tsx lines 163-164 store it at two decimals.
ReceiptScreenLineTotal(lineTotalValue) ==
  IF lineTotalValue = None THEN None ELSE Some(Round2(Val(lineTotalValue)))

\* The item insertReceiptItem receives on the add-receipt screen.
ReconcileOnAdd(qty, unitPrice, lineTotal) ==
  [qty |-> qty,
   unit_price |-> StoredUnitPrice(qty, unitPrice, DerivedLineTotal(qty, unitPrice, lineTotal)),
   line_total |-> AddScreenLineTotal(DerivedLineTotal(qty, unitPrice, lineTotal))]

\* The item replaceReceiptItems receives on the receipt screen.
ReconcileOnEdit(qty, unitPrice, lineTotal) ==
  [qty |-> qty,
   unit_price |-> StoredUnitPrice(qty, unitPrice, DerivedLineTotal(qty, unitPrice, lineTotal)),
   line_total |-> ReceiptScreenLineTotal(DerivedLineTotal(qty, unitPrice, lineTotal))]

Reconcile(screen, qty, unitPrice, lineTotal) ==
  IF screen = "add" THEN ReconcileOnAdd(qty, unitPrice, lineTotal)
  ELSE ReconcileOnEdit(qty, unitPrice, lineTotal)

(***************************************************************************)
(* The AI result: src/unnamed/part_002.  A JavaScript value is a record    *)
(* [kind, val]: kind is "undefined", "null", "boolean", "number",          *)
(* "infinity" (the number a JSON text such as 1e999 parses to), "string",  *)
(* "array" (val a sequence of values) or "object" (val a function from     *)
(* its keys to values).  A content string is the record of what the code   *)
(* reads from it: whether it is the empty string, and what JSON.parse      *)
(* makes of it, a value or a SyntaxError.                                  *)
(***************************************************************************)
Undefined == [kind |-> "undefined", val |-> ""]
JsNull == [kind |-> "null", val |-> ""]
JsNumber(n) == [kind |-> "number", val |-> n]
JsInfinity == [kind |-> "infinity", val |-> ""]
JsString(s) == [kind |-> "string", val |-> s]
JsArray(elems) == [kind |-> "array", val |-> elems]
JsObject(fields) == [kind |-> "object", val |-> fields]
SyntaxError == [kind |-> "SyntaxError", val |-> ""]

\* Reading a property of null or undefined throws a TypeError.
ThrowsOnRead(value) == value.kind \in {"null", "undefined"}

\* value[key] for the keys the code reads, on a value that can be read.
Prop(value, key) ==
  IF value.kind = "object" /\ key \in DOMAIN value.val THEN value.val[key]
  ELSE Undefined

\* typeof v === 'number' && Number.isFinite(v) ? v : null
FiniteOrNull(value) == IF value.kind = "number" THEN Some(value.val) ELSE None

\* typeof v === 'string' && v.trim().length > 0 ? v.trim() : null
TextOrNull(value) ==
  IF value.kind = "string" /\ Len(Trim(value.val)) > 0 THEN Some(Trim(value.val))
  ELSE None

\* lines 53-63, on an item that can be read
normalizeAiItem(item) ==
  [name |-> IF Prop(item, "name").kind = "string" THEN Trim(Prop(item, "name").val)
            ELSE "",
   qty |-> FiniteOrNull(Prop(item, "qty")),
   price |-> FiniteOrNull(Prop(item, "price")),
   line_total |-> FiniteOrNull(Prop(item, "line_total"))]

\* data.items.map(normalizeAiItem) throws when an element cannot be read.
MapThrows(elems) == \E k \in 1..Len(elems) : ThrowsOnRead(elems[k])

\* A filter that keeps every item.
KeepsEveryItem(item) == TRUE

\* line 68: item.name.length > 0
HasName(item) == Len(item.name) > 0

\* lines 67-69
NormalizedItems(itemsValue) ==
  IF itemsValue.kind = "array"
  THEN SelectSeq([k \in 1..Len(itemsValue.val) |-> normalizeAiItem(itemsValue.val[k])],
                 HasName)
  ELSE <<>>

\* A fallback that names a merchant.
PlaceholderReceiptData ==
  [items |-> <<>>, merchant |-> Some("Unknown"), purchase_datetime |-> None,
   subtotal |-> None, tax |-> None, total |-> None]

\* lines 89-98
emptyReceiptData ==
  [items |-> <<>>, merchant |-> None, purchase_datetime |-> None,
   subtotal |-> None, tax |-> None, total |-> None]

\* Whether normalizeAiReceiptData throws: data itself, or an element of its
\* items, cannot be read.
NormalizeThrows(data) ==
  \/ ThrowsOnRead(data)
  \/ Prop(data, "items").kind = "array" /\ MapThrows(Prop(data, "items").val)

\* lines 65-87, when nothing throws
normalizeAiReceiptData(data) ==
  [items |-> NormalizedItems(Prop(data, "items")),
   merchant |-> TextOrNull(Prop(data, "merchant")),
   purchase_datetime |-> TextOrNull(Prop(data, "purchase_datetime")),
   subtotal |-> FiniteOrNull(Prop(data, "subtotal")),
   tax |-> FiniteOrNull(Prop(data, "tax")),
   total |-> FiniteOrNull(Prop(data, "total"))]

\* lines 105-107: what the try block comes to: the error thrown in it, if
\* any, and the value it returns otherwise.
TryParse(parsed) ==
  IF parsed = SyntaxError THEN [thrown |-> "SyntaxError", data |-> None]
  ELSE IF NormalizeThrows(parsed) THEN [thrown |-> "TypeError", data |-> None]
  ELSE [thrown |-> "none", data |-> Some(normalizeAiReceiptData(parsed))]

(***************************************************************************)
(* State.                                                                  *)
(***************************************************************************)
VARIABLES
  \* parseReceiptItems: its argument, the filtered lines, the loop's position
  \* and the locals of the function and of the loop body.
  rawText, lines, lineNo, items, pendingDescription, pendingUnit,
  sanitizedLine, unitLine, matches, ocrPc,
  \* History of the parse, read by the properties only: the branch the last
  \* line took, the line each item came from, the unit lines buffered so far.
  branch, itemLine, buffered,
  \* normalizeReceiptDateTime / normalizeReceiptDateTimeFromScan: the argument,
  \* the options, the arguments buildDate received, the Date and the text
  \* returned.
  dateValue, preferCurrentYear, currentYear, datePc, dateFields, dateResult,
  dateText,
  \* The database: the receipts and receipt_items tables, their AUTOINCREMENT
  \* counters and what the last operation returned.
  receipts, receiptItems, nextReceiptId, nextItemId, dbReply,
  \* handleSave of the two screens: the item's text fields, the screen, the
  \* item handed to the database, and the item a second save of that item
  \* hands over.
  draftItem, saveScreen, savedItem, resavedItem,
  \* parseReceiptDataFromContent: the content, the position in the function,
  \* the error thrown inside the try block, the value the try block came to
  \* and the value returned.
  aiContent, aiPc, aiThrown, aiParsed, aiResult,
  \* The add-receipt screen: the text fields, the names of the items, the
  \* duplicate warning and its checkbox, isSaving, the debounced check that
  \* is still active, what the running handleSave holds, the alert on screen.
  merchantText, purchaseDateTimeText, totalText, itemNames, purchaseDateWarning,
  purchaseDateAcknowledged, isSaving, activeCheck, saving, alert,
  \* The duplicate checks whose timer has fired and whose query has not yet
  \* answered, and what the last answer did.
  inFlight, lastCheck,
  \* A list screen: which one, the purchase_datetime of its rows, the two
  \* filter dates and the rows shown.
  listScreen, listRows, filterFrom, filterTo, shownRows,
  \* The callers that share the database connection: what each one is doing,
  \* whether the connection has a transaction open, what a ROLLBACK brings
  \* back, and how many statements of each caller the tables hold.
  ops, txActive, txSnapshot, applied

ocrVars == <<rawText, lines, lineNo, items, pendingDescription, pendingUnit,
             sanitizedLine, unitLine, matches, ocrPc, branch, itemLine, buffered>>
dateVars == <<dateValue, preferCurrentYear, currentYear, datePc, dateFields,
              dateResult, dateText>>
dbVars == <<receipts, receiptItems, nextReceiptId, nextItemId, dbReply>>
saveVars == <<draftItem, saveScreen, savedItem, resavedItem>>
aiVars == <<aiContent, aiPc, aiThrown, aiParsed, aiResult>>
addVars == <<merchantText, purchaseDateTimeText, totalText, itemNames,
             purchaseDateWarning, purchaseDateAcknowledged, isSaving, activeCheck,
             saving, alert, inFlight, lastCheck>>

listVars == <<listScreen, listRows, filterFrom, filterTo, shownRows>>
procVars == <<ops, txActive, txSnapshot, applied>>

vars == <<ocrVars, dateVars, dbVars, saveVars, aiVars, addVars, listVars, procVars>>

\* Each part of the program at rest: what the specifications of the other
\* parts start from and leave alone.
NoReply == [op |-> "none", purchaseDateTime |-> "", total |-> None, outcome |-> "none"]
EmptyDraft == [qty |-> "", price |-> "", lineTotal |-> ""]

OcrAtRest ==
  /\ rawText = ""
  /\ lines = <<>>
  /\ lineNo = 0
  /\ items = <<>>
  /\ pendingDescription = None
  /\ pendingUnit = None
  /\ sanitizedLine = ""
  /\ unitLine = None
  /\ matches = <<>>
  /\ ocrPc = "rest"
  /\ branch = "none"
  /\ itemLine = <<>>
  /\ buffered = <<>>

DateAtRest ==
  /\ dateValue = ""
  /\ preferCurrentYear = FALSE
  /\ currentYear = 0
  /\ datePc = "rest"
  /\ dateFields = None
  /\ dateResult = None
  /\ dateText = None

DbAtRest ==
  /\ receipts = {}
  /\ receiptItems = {}
  /\ nextReceiptId = 1
  /\ nextItemId = 1
  /\ dbReply = NoReply

SaveAtRest ==
  /\ draftItem = EmptyDraft
  /\ saveScreen = "none"
  /\ savedItem = None
  /\ resavedItem = None

NoContent == [isEmpty |-> TRUE, parse |-> SyntaxError]

AiAtRest ==
  /\ aiContent = NoContent
  /\ aiPc = "rest"
  /\ aiThrown = "none"
  /\ aiParsed = None
  /\ aiResult = None

\* part_006 lines 40-52: the add-receipt screen as it opens.
AddAtRest ==
  /\ merchantText = ""
  /\ purchaseDateTimeText = ""
  /\ totalText = ""
  /\ itemNames = <<>>
  /\ purchaseDateWarning = FALSE
  /\ purchaseDateAcknowledged = FALSE
  /\ isSaving = FALSE
  /\ activeCheck = None
  /\ inFlight = {}
  /\ lastCheck = None
  /\ saving = None
  /\ alert = "none"

ListAtRest ==
  /\ listScreen = "none"
  /\ listRows = {}
  /\ filterFrom = None
  /\ filterTo = None
  /\ shownRows = {}

\* The callers of the database functions.
Procs == {1, 2}

Idle ==
  [kind |-> "none", pc |-> "idle", arg |-> None, k |-> 0, receiptIdMap |-> {},
   itemsImported |-> 0, skippedItems |-> 0, before |-> None]

ProcAtRest ==
  /\ ops = [p \in Procs |-> Idle]
  /\ txActive = FALSE
  /\ txSnapshot = None
  /\ applied = [p \in Procs |-> 0]

\* What each part's steps leave alone.
DateOnly == UNCHANGED <<ocrVars, dbVars, saveVars, aiVars, addVars, listVars, procVars>>
SaveOnly == UNCHANGED <<ocrVars, dateVars, dbVars, aiVars, addVars, listVars, procVars>>
AiOnly == UNCHANGED <<ocrVars, dateVars, dbVars, saveVars, addVars, listVars, procVars>>

(***************************************************************************)
(* parseReceiptItems as a state machine: the loop reads a line, then takes *)
(* one of its branches.                                                    *)
(***************************************************************************)
\* The OCR lines the texts of the model are made of.
OcrLines ==
  <<"0.78 kg @ 2.16/kg 1.69",
    "Apples 2 @ 1.50 3.00",
    "2 @ $1.50",
    "3 @ 2.00",
    "Milk 2L   3.00",
    "Bananas",
    "SUBTOTAL 10.00",
    "12-DAIRY",
    "(40) 2 Bread 2.50",
    "0.5 kg @ 2.00/kg 2 lb @ 3.00 7.00",
    "1.5 lb @ 2.00",
    "2 Milk 3.00">>

RECURSIVE JoinLines(_)
JoinLines(t) ==
  IF Len(t) = 0 THEN ""
  ELSE IF Len(t) = 1 THEN t[1] ELSE t[1] \o "\n" \o JoinLines(Tail(t))

RawTextsOfLength(n) ==
  {JoinLines([i \in 1..n |-> OcrLines[pick[i]]]) : pick \in [1..n -> 1..Len(OcrLines)]}

\* Texts without a line of content: the empty text and white space only.
BlankTexts == {"", "  \r\n \n"}

RawTexts == UNION {RawTextsOfLength(n) : n \in 1..MaxLines} \cup BlankTexts

InitOcr ==
  /\ rawText \in RawTexts
  /\ lines = <<>>
  /\ lineNo = 0
  /\ items = <<>>
  /\ pendingDescription = None
  /\ pendingUnit = None
  /\ sanitizedLine = ""
  /\ unitLine = None
  /\ matches = <<>>
  /\ ocrPc = "start"
  /\ branch = "none"
  /\ itemLine = <<>>
  /\ buffered = <<>>
  /\ DateAtRest
  /\ DbAtRest
  /\ SaveAtRest
  /\ AiAtRest
  /\ AddAtRest
  /\ ListAtRest
  /\ ProcAtRest

OcrOnly == UNCHANGED <<dateVars, dbVars, saveVars, aiVars, addVars, listVars, procVars>>

\* lines 123-130: split, normalize and filter the text; the locals start empty.
SplitAndFilter ==
  /\ ocrPc = "start"
  /\ lines' = NormalizedLines(rawText)
  /\ lineNo' = 1
  /\ ocrPc' = "line"
  /\ UNCHANGED <<rawText, items, pendingDescription, pendingUnit, sanitizedLine,
                 unitLine, matches, branch, itemLine, buffered>>
  /\ OcrOnly

\* A loop that leaves the last line unread.
BeforeLastLine == ocrPc = "line" /\ lineNo < Len(lines)

AtLine == ocrPc = "line" /\ lineNo <= Len(lines)
IsSkipped(line) == looksLikeCategoryHeader(line) \/ looksLikeCodeOnly(line)

\* lines 133-135: a category header or a code-only line is passed over.
SkipLine ==
  /\ AtLine
  /\ IsSkipped(lines[lineNo])
  /\ lineNo' = lineNo + 1
  /\ branch' = "skip"
  /\ UNCHANGED <<rawText, lines, items, pendingDescription, pendingUnit,
                 sanitizedLine, unitLine, matches, ocrPc, itemLine, buffered>>
  /\ OcrOnly

\* lines 137-139: the loop body's locals.
ScanLine ==
  /\ AtLine
  /\ ~IsSkipped(lines[lineNo])
  /\ sanitizedLine' = RemoveDollars(lines[lineNo])
  /\ unitLine' = parseUnitLine(RemoveDollars(lines[lineNo]))
  /\ matches' = PriceMatches(RemoveDollars(lines[lineNo]))
  /\ ocrPc' = "scanned"
  /\ UNCHANGED <<rawText, lines, lineNo, items, pendingDescription, pendingUnit,
                 branch, itemLine, buffered>>
  /\ OcrOnly

\* A unit line that always waits in pendingUnit for the item after it.
BufferUnitLine ==
  /\ pendingUnit' = unitLine
  /\ buffered' = Append(buffered, Val(unitLine))
  /\ UNCHANGED items

\* The unit line's effect, lines 143-153 and 161-171: it fills the last item,
\* or waits in pendingUnit while there is no item.
ApplyUnitLine ==
  IF Len(items) > 0
  THEN /\ items' = [items EXCEPT ![Len(items)] = Backfill(@, unitLine)]
       /\ UNCHANGED <<pendingUnit, buffered>>
  ELSE /\ pendingUnit' = unitLine
       /\ buffered' = Append(buffered, Val(unitLine))
       /\ UNCHANGED items

\* `continue`, or the end of the loop body: on to the next line.
Continue(taken) ==
  /\ lineNo' = lineNo + 1
  /\ ocrPc' = "line"
  /\ branch' = taken
  /\ UNCHANGED <<rawText, lines, sanitizedLine, unitLine, matches>>
  /\ OcrOnly

\* lines 141-158: a line without an amount.
NoAmountLine ==
  /\ ocrPc = "scanned"
  /\ Len(matches) = 0
  /\ IF unitLine # None
     THEN ApplyUnitLine /\ UNCHANGED pendingDescription
     ELSE /\ pendingDescription' =
               IF hasLetters(sanitizedLine) THEN Some(sanitizedLine)
               ELSE pendingDescription
          /\ UNCHANGED <<items, pendingUnit, buffered>>
  /\ Continue("noAmount")
  /\ UNCHANGED itemLine

\* lines 160-173: a line that is only a quantity and a unit price.
UnitOnlyLine ==
  /\ ocrPc = "scanned"
  /\ Len(matches) > 0
  /\ isUnitOnlyLine(sanitizedLine, unitLine)
  /\ ApplyUnitLine
  /\ Continue("unitOnly")
  /\ UNCHANGED <<pendingDescription, itemLine>>

IsPricedLine ==
  /\ ocrPc = "scanned"
  /\ Len(matches) > 0
  /\ ~isUnitOnlyLine(sanitizedLine, unitLine)

\* The leftmost amount of the line.
FirstMatch == matches[1]

LastMatch == matches[Len(matches)]
DescriptionPart ==
  LineDescription(sanitizedLine, LastMatch.index, unitLine, pendingDescription)

\* lines 175-193: a priced line whose amount does not parse, or whose
\* description has no letters, yields nothing.
DropPricedLine ==
  /\ IsPricedLine
  /\ parseMoney(LastMatch.text) = None \/ ~hasLetters(DescriptionPart)
  /\ Continue("drop")
  /\ UNCHANGED <<items, pendingDescription, pendingUnit, itemLine, buffered>>

\* lines 195-232: the item is built and pushed; both buffers end empty.
EmitItem ==
  /\ IsPricedLine
  /\ parseMoney(LastMatch.text) # None
  /\ hasLetters(DescriptionPart) = TRUE
  /\ items' = Append(items,
                BuildItem(DescriptionPart, Val(parseMoney(LastMatch.text)), pendingUnit))
  /\ pendingUnit' = None
  /\ pendingDescription' = None
  /\ itemLine' = Append(itemLine, lineNo)
  /\ Continue("emit")
  /\ UNCHANGED buffered

\* line 235: return items.
ReturnItems ==
  /\ ocrPc = "line"
  /\ lineNo > Len(lines)
  /\ ocrPc' = "done"
  /\ UNCHANGED <<rawText, lines, lineNo, items, pendingDescription, pendingUnit,
                 sanitizedLine, unitLine, matches, branch, itemLine, buffered>>
  /\ OcrOnly

NextOcr ==
  \/ SplitAndFilter
  \/ SkipLine
  \/ ScanLine
  \/ NoAmountLine
  \/ UnitOnlyLine
  \/ DropPricedLine
  \/ EmitItem
  \/ ReturnItems

SpecOcr == InitOcr /\ [][NextOcr]_vars

(***************************************************************************)
(* normalizeReceiptDateTime and normalizeReceiptDateTimeFromScan: one call *)
(* on one string, by the line of parseFlexibleDateTime that returns.       *)
(***************************************************************************)
\* The dates and the times the strings of the model are made of.
DateParts ==
  {"2025-06-15", "2024-02-29", "2025-02-30", "2025-04-31", "2025-13-01",
   "2025-06-00", "31/12/2025", "12/31/2025", "00/06/2025", "5.6.25",
   "25/11/05", "25/13/40", "0099-12-31", "14/01/25", "13/02/2025"}

TimeParts ==
  {"", " 10:30", " 25:00", " 10:61:00", " 10:30:75", " 12:15 AM", "  11:59:59 pm",
   " 23:59:59"}

DateValues ==
  {d \o t : d \in DateParts, t \in TimeParts} \cup {"", "   ", "receipt"}

CurrentYears == {2025, 2026}

InitDate ==
  /\ dateValue \in DateValues
  /\ preferCurrentYear \in BOOLEAN
  /\ currentYear \in CurrentYears
  /\ datePc = "start"
  /\ dateFields = None
  /\ dateResult = None
  /\ dateText = None
  /\ OcrAtRest
  /\ DbAtRest
  /\ SaveAtRest
  /\ AiAtRest
  /\ AddAtRest
  /\ ListAtRest
  /\ ProcAtRest

\* lines 147-153 and 155-161 around parseFlexibleDateTime: null stays null, a
\* Date is formatted.
Returns(fields, date) ==
  /\ datePc' = "done"
  /\ dateFields' = fields
  /\ dateResult' = date
  /\ dateText' = IF date = None THEN None ELSE Some(formatDateTimeLocal(Val(date)))
  /\ UNCHANGED <<dateValue, preferCurrentYear, currentYear>>
  /\ DateOnly

Reading == PatternReading(NormalizedDateText(dateValue), preferCurrentYear, currentYear)

\* lines 33-36: nothing but white space.
ParseBlank ==
  /\ datePc = "start"
  /\ NormalizedDateText(dateValue) = ""
  /\ Returns(None, None)

\* lines 50-81: the current-year reading.
ParseShortYear ==
  /\ datePc = "start"
  /\ NormalizedDateText(dateValue) # ""
  /\ Reading.name = "short"
  /\ Returns(Reading.fields, DateOfReading(Reading))

\* lines 83-135: the ymd or the dmy pattern.
ParsePattern ==
  /\ datePc = "start"
  /\ NormalizedDateText(dateValue) # ""
  /\ Reading.name \in {"ymd", "dmy"}
  /\ Returns(Reading.fields, DateOfReading(Reading))

\* lines 137-138: no pattern returned a date.
ParseByEngine ==
  /\ datePc = "start"
  /\ NormalizedDateText(dateValue) # ""
  /\ Reading.name = "none"
  /\ \E parsed \in EngineParses : Returns(None, parsed)

NextDate ==
  \/ ParseBlank
  \/ ParseShortYear
  \/ ParsePattern
  \/ ParseByEngine

SpecDate == InitDate /\ [][NextDate]_vars

(***************************************************************************)
(* The database operations, each one atomic.                               *)
(***************************************************************************)
\* Receipt ids ever given out.
MaxReceipts == 2

\* hasReceiptWithPurchaseDate's default toleranceMs.
DefaultToleranceMs == 60000

BackupReceipt(legacyId, receipt) ==
  [id |-> legacyId, purchase_datetime |-> receipt.purchase_datetime,
   subtotal |-> receipt.subtotal, tax |-> receipt.tax, total |-> receipt.total]

Backups ==
  {[version |-> 1,
    receipts |-> <<BackupReceipt(7, CHOOSE r \in NewReceipts : r.total = Amount(10, 0))>>,
    items |-> <<[receipt_id |-> 7], [receipt_id |-> 9]>>],
   [version |-> 1,
    receipts |-> <<BackupReceipt(1, CHOOSE r \in NewReceipts : r.total = Amount(0, 6)),
                   BackupReceipt(2, CHOOSE r \in NewReceipts : r.total = Amount(10, 0))>>,
    items |-> <<>>],
   [version |-> 2, receipts |-> <<>>, items |-> <<>>]}

InitDb ==
  /\ DbAtRest
  /\ OcrAtRest
  /\ DateAtRest
  /\ SaveAtRest
  /\ AiAtRest
  /\ AddAtRest
  /\ ListAtRest
  /\ ProcAtRest

DbOnly == UNCHANGED <<ocrVars, dateVars, saveVars, aiVars, addVars, listVars, procVars>>

Reply(op, outcome) ==
  [op |-> op, purchaseDateTime |-> "", total |-> None, outcome |-> outcome]

\* insertReceipt, lines 63-99: the row is stored.
InsertReceipt ==
  \E receipt \in NewReceipts, allowDuplicate \in BOOLEAN :
    /\ nextReceiptId <= MaxReceipts
    /\ ~ViolatesUniqueKey(receipts, InsertedDedupeKey(receipt, allowDuplicate))
    /\ receipts' = receipts \cup {NewRow(nextReceiptId, receipt, allowDuplicate)}
    /\ nextReceiptId' = nextReceiptId + 1
    /\ dbReply' = Reply("insertReceipt", "inserted")
    /\ UNCHANGED <<receiptItems, nextItemId>>
    /\ DbOnly

\* insertReceipt: the unique index refuses the row and runAsync throws.
InsertReceiptRefused ==
  \E receipt \in NewReceipts :
    /\ nextReceiptId <= MaxReceipts
    /\ ViolatesUniqueKey(receipts, InsertedDedupeKey(receipt, FALSE))
    /\ dbReply' = Reply("insertReceipt", "constraint")
    /\ UNCHANGED <<receipts, receiptItems, nextReceiptId, nextItemId>>
    /\ DbOnly

\* updateReceiptDetails, lines 441-467.
UpdateReceiptDetails ==
  \E row \in receipts, updates \in NewReceipts :
    /\ receipts' = (receipts \ {row}) \cup {UpdatedRow(row, updates)}
    /\ dbReply' = Reply("updateReceiptDetails", "updated")
    /\ UNCHANGED <<receiptItems, nextReceiptId, nextItemId>>
    /\ DbOnly

\* deleteReceipt, lines 502-513: the receipt and its items go.
DeleteReceipt ==
  \E row \in receipts :
    /\ receipts' = receipts \ {row}
    /\ receiptItems' = {item \in receiptItems : item.receipt_id # row.id}
    /\ dbReply' = Reply("deleteReceipt", "deleted")
    /\ UNCHANGED <<nextReceiptId, nextItemId>>
    /\ DbOnly

\* importReceiptBackup, lines 236-295: every receipt of the backup is
\* inserted with allowDuplicate, then the items of those receipts.
ImportReceiptBackup ==
  \E backup \in Backups :
    /\ IsSupportedBackup(backup)
    /\ nextReceiptId + Len(backup.receipts) - 1 <= MaxReceipts
    /\ receipts' = receipts \cup ImportedRows(backup.receipts, nextReceiptId)
    /\ nextReceiptId' = nextReceiptId + Len(backup.receipts)
    /\ receiptItems' = receiptItems \cup ImportedItems(backup, nextReceiptId, nextItemId)
    /\ nextItemId' = nextItemId + Cardinality(ImportedItemIndexes(backup))
    /\ dbReply' = Reply("importReceiptBackup", "imported")
    /\ DbOnly

\* importReceiptBackup, lines 241-243: a backup of another version throws.
ImportReceiptBackupRefused ==
  \E backup \in Backups :
    /\ ~IsSupportedBackup(backup)
    /\ dbReply' = Reply("importReceiptBackup", "unsupported")
    /\ UNCHANGED <<receipts, receiptItems, nextReceiptId, nextItemId>>
    /\ DbOnly

\* hasReceiptWithPurchaseDate with the default tolerance, lines 328-399.
HasReceiptWithPurchaseDate ==
  \E purchaseDateTime \in CandidateDateTimes, total \in CandidateTotals :
    /\ dbReply' =
         [op |-> "hasReceiptWithPurchaseDate",
          purchaseDateTime |-> purchaseDateTime,
          total |-> total,
          outcome |-> IF hasReceiptWithPurchaseDate(receipts, purchaseDateTime, total,
                                                    DefaultToleranceMs)
                      THEN "duplicate" ELSE "new"]
    /\ UNCHANGED <<receipts, receiptItems, nextReceiptId, nextItemId>>
    /\ DbOnly

NextDb ==
  \/ InsertReceipt
  \/ InsertReceiptRefused
  \/ UpdateReceiptDetails
  \/ DeleteReceipt
  \/ ImportReceiptBackup
  \/ ImportReceiptBackupRefused
  \/ HasReceiptWithPurchaseDate

SpecDb == InitDb /\ [][NextDb]_vars

(***************************************************************************)
(* handleSave's treatment of one item on either screen.                    *)
(***************************************************************************)
\* What the user can leave in the item's fields.
QtyTexts == {"", "2", "3", "0", " 1.5 ", "two"}
PriceTexts == {"", "1.50", "1.999", "0.335"}
LineTotalTexts == {"", "5.00", "10", "2.999"}

InitSave ==
  /\ draftItem \in [qty : QtyTexts, price : PriceTexts, lineTotal : LineTotalTexts]
  /\ saveScreen = "none"
  /\ savedItem = None
  /\ resavedItem = None
  /\ OcrAtRest
  /\ DateAtRest
  /\ DbAtRest
  /\ AiAtRest
  /\ AddAtRest
  /\ ListAtRest
  /\ ProcAtRest

Reconciled(screen, draft) ==
  Reconcile(screen, parseOptionalNumber(draft.qty), parseOptionalNumber(draft.price),
            parseOptionalNumber(draft.lineTotal))

\* part_006 lines 372-394: the item the add-receipt screen inserts.
SaveItemOnAddScreen ==
  /\ savedItem = None
  /\ saveScreen' = "add"
  /\ savedItem' = Some(Reconciled("add", draftItem))
  /\ UNCHANGED <<draftItem, resavedItem>>
  /\ SaveOnly

\* [id].tsx lines 143-166: the item the receipt screen stores.
SaveItemOnReceiptScreen ==
  /\ savedItem = None
  /\ saveScreen' = "edit"
  /\ savedItem' = Some(Reconciled("edit", draftItem))
  /\ UNCHANGED <<draftItem, resavedItem>>
  /\ SaveOnly

\* The same lines of the same screen, on the numbers of the item it stored.
SaveStoredItemAgain ==
  /\ savedItem # None
  /\ resavedItem = None
  /\ resavedItem' = Some(Reconcile(saveScreen, Val(savedItem).qty,
                                    Val(savedItem).unit_price, Val(savedItem).line_total))
  /\ UNCHANGED <<draftItem, saveScreen, savedItem>>
  /\ SaveOnly

NextSave ==
  \/ SaveItemOnAddScreen
  \/ SaveItemOnReceiptScreen
  \/ SaveStoredItemAgain

SpecSave == InitSave /\ [][NextSave]_vars


(***************************************************************************)
(* parseReceiptDataFromContent on one content string.                      *)
(***************************************************************************)
\* Elements of 'items' in one content.
MaxAiItems == 2

AiItem(name, qty, price, lineTotal) ==
  JsObject([name |-> name, qty |-> qty, price |-> price, line_total |-> lineTotal])

\* What an element of 'items' can be.
AiItemValues ==
  {AiItem(JsString("  Milk 2L "), JsNumber(2000), JsNumber(1500), JsNumber(3000)),
   AiItem(JsString("Eggs"), JsString("2"), JsInfinity, JsNull),
   AiItem(JsString("   "), JsNumber(1000), JsNumber(990), JsNumber(990)),
   AiItem(JsNumber(5000), JsNull, JsNull, JsNumber(4000)),
   JsObject([name |-> JsString("Tea")]),
   JsNumber(7000),
   JsNull}

\* What 'items' can be: an array, or not one.
AiItemsValues ==
  {JsArray(elems) : elems \in UNION {[1..n -> AiItemValues] : n \in 0..MaxAiItems}}
    \cup {Undefined, JsNull, JsString("Milk"), JsObject([name |-> JsString("Milk")])}

\* The other fields of the object.
AiTopFields ==
  {[merchant |-> JsString(" Corner Shop "), purchase_datetime |-> JsString("2025-03-01 10:00"),
    subtotal |-> JsNumber(9000), tax |-> JsNumber(1010), total |-> JsNumber(10010)],
   [merchant |-> JsString("  "), purchase_datetime |-> JsNull,
    subtotal |-> JsString("9.00"), tax |-> JsInfinity, total |-> JsNull],
   [merchant |-> JsNumber(12000), purchase_datetime |-> JsString(""),
    subtotal |-> Undefined, tax |-> JsNull, total |-> JsArray(<<>>)]}

AiObject(itemsValue, top) ==
  JsObject([items |-> itemsValue, merchant |-> top.merchant,
            purchase_datetime |-> top.purchase_datetime, subtotal |-> top.subtotal,
            tax |-> top.tax, total |-> top.total])

\* What JSON.parse makes of a non-empty content: a SyntaxError, or the value
\* the text denotes.
AiParses ==
  {SyntaxError, JsNull, JsNumber(7000), JsInfinity, JsString("Milk 3.00"),
   JsArray(<<JsNumber(1000)>>), JsObject([merchant |-> JsString("Corner Shop")])}
    \cup {AiObject(itemsValue, top) : itemsValue \in AiItemsValues, top \in AiTopFields}

AiContents == {NoContent} \cup {[isEmpty |-> FALSE, parse |-> p] : p \in AiParses}

InitAi ==
  /\ aiContent \in AiContents
  /\ aiPc = "start"
  /\ aiThrown = "none"
  /\ aiParsed = None
  /\ aiResult = None
  /\ OcrAtRest
  /\ DateAtRest
  /\ DbAtRest
  /\ SaveAtRest
  /\ AddAtRest
  /\ ListAtRest
  /\ ProcAtRest

\* lines 101-103: no content.
ReturnEmptyForNoContent ==
  /\ aiPc = "start"
  /\ aiContent.isEmpty
  /\ aiPc' = "done"
  /\ aiResult' = Some(emptyReceiptData)
  /\ UNCHANGED <<aiContent, aiThrown, aiParsed>>
  /\ AiOnly

\* lines 105-107: the try block runs to its return or to a throw.
TryParseContent ==
  /\ aiPc = "start"
  /\ ~aiContent.isEmpty
  /\ aiPc' = "tried"
  /\ aiThrown' = TryParse(aiContent.parse).thrown
  /\ aiParsed' = TryParse(aiContent.parse).data
  /\ UNCHANGED <<aiContent, aiResult>>
  /\ AiOnly

\* line 107: the normalized data is returned.
ReturnNormalized ==
  /\ aiPc = "tried"
  /\ aiThrown = "none"
  /\ aiPc' = "done"
  /\ aiResult' = aiParsed
  /\ UNCHANGED <<aiContent, aiThrown, aiParsed>>
  /\ AiOnly

\* lines 108-110: whatever was thrown is caught.
CatchAndReturnEmpty ==
  /\ aiPc = "tried"
  /\ aiThrown # "none"
  /\ aiPc' = "done"
  /\ aiResult' = Some(emptyReceiptData)
  /\ UNCHANGED <<aiContent, aiThrown, aiParsed>>
  /\ AiOnly

NextAi ==
  \/ ReturnEmptyForNoContent
  \/ TryParseContent
  \/ ReturnNormalized
  \/ CatchAndReturnEmpty

SpecAi == InitAi /\ [][NextAi]_vars

(***************************************************************************)
(* The add-receipt screen, src/unnamed/part_006: the fields, the debounced *)
(* duplicate check and handleSave.  No scan runs (isProcessing is false)   *)
(* and the subtotal and tax fields stay empty.                             *)
(***************************************************************************)
\* What the user can leave in the fields.
MerchantTexts == {"", "Corner Shop"}
PurchaseDateTimeTexts == {"", "2025-03-01 10:00:00", "01/03/2025 10:00", "2025-03-02"}
TotalTexts == {"", "10.00"}
ItemNameLists == {<<>>, <<"Milk 2L", "  ">>}

\* The year the screen runs in.
ScreenYear == 2025

\* The queries of the duplicate check that can be on their way at once.
MaxInFlight == 2

\* normalizeReceiptDateTimeFromScan on the texts of the model, each one
\* normalized once.
ScanNormalized ==
  [text \in PurchaseDateTimeTexts |-> normalizeReceiptDateTimeFromScan(Trim(text), ScreenYear)]

\* handleSave's forceDuplicate: absent ("default"), true as the 'Save anyway'
\* buttons pass it, or the press event the Save button passes (line 611,
\* onPress={handleSave}); an event object is truthy.
IsTruthy(forceDuplicate) == forceDuplicate \in {"true", "event"}

InitAdd ==
  /\ AddAtRest
  /\ ListAtRest
  /\ ProcAtRest
  /\ OcrAtRest
  /\ DateAtRest
  /\ DbAtRest
  /\ SaveAtRest
  /\ AiAtRest

AddOnly == UNCHANGED <<ocrVars, dateVars, saveVars, aiVars, listVars, procVars>>
DbUntouched == UNCHANGED <<receipts, receiptItems, nextReceiptId, nextItemId, dbReply>>

\* line 286-290: the checkbox is cleared whenever the warning is off.
AcknowledgedUnder(warning) == warning /\ purchaseDateAcknowledged

\* lines 280-283: the cleanup of the effect: the checks of the old text are
\* no longer active.
Deactivated(checks) == {[check EXCEPT !.isActive = FALSE] : check \in checks}

\* A callback that applies whatever result arrives.
AppliesAnyResult(check) == TRUE

\* line 269 and 274: a result is applied only while its effect is active.
AppliesResult(check) == check.isActive

\* lines 252-284, the effect of a new purchase-date text: the cleanup of the
\* old effect runs, clearing its timer; an empty or unreadable text clears the
\* warning, any other starts a timer.
EditPurchaseDateTime ==
  \E text \in PurchaseDateTimeTexts :
    /\ alert = "none"
    /\ text # purchaseDateTimeText
    /\ purchaseDateTimeText' = text
    /\ inFlight' = Deactivated(inFlight)
    /\ lastCheck' = None
    /\ IF Trim(text) = "" \/ ScanNormalized[text] = None
       THEN /\ purchaseDateWarning' = FALSE
            /\ purchaseDateAcknowledged' = FALSE
            /\ activeCheck' = None
       ELSE /\ activeCheck' = ScanNormalized[text]
            /\ UNCHANGED <<purchaseDateWarning, purchaseDateAcknowledged>>
    /\ UNCHANGED <<merchantText, totalText, itemNames, isSaving, saving, alert>>
    /\ DbUntouched
    /\ AddOnly

\* lines 266-267: after 300 ms the timer fires and the query is sent.
TimerFires ==
  /\ activeCheck # None
  /\ Cardinality(inFlight) < MaxInFlight
  /\ inFlight' = inFlight \cup
       {[text |-> purchaseDateTimeText, purchaseDateTime |-> Val(activeCheck),
         isActive |-> TRUE]}
  /\ activeCheck' = None
  /\ UNCHANGED <<merchantText, purchaseDateTimeText, totalText, itemNames,
                 purchaseDateWarning, purchaseDateAcknowledged, isSaving, saving, alert,
                 lastCheck>>
  /\ DbUntouched
  /\ AddOnly

\* lines 267-278: the query of a check answers.
CheckCompletes(check) ==
  /\ check \in inFlight
  /\ inFlight' = inFlight \ {check}
  /\ lastCheck' =
       Some([check |-> check,
             hasDuplicate |-> hasPossibleDuplicateReceipt(receipts, check.purchaseDateTime,
                                                          None)])
  /\ IF AppliesResult(check)
     THEN /\ purchaseDateWarning' =
               hasPossibleDuplicateReceipt(receipts, check.purchaseDateTime, None)
          /\ purchaseDateAcknowledged' =
               AcknowledgedUnder(
                 hasPossibleDuplicateReceipt(receipts, check.purchaseDateTime, None))
     ELSE UNCHANGED <<purchaseDateWarning, purchaseDateAcknowledged>>
  /\ UNCHANGED <<merchantText, purchaseDateTimeText, totalText, itemNames, isSaving,
                 activeCheck, saving, alert>>
  /\ DbUntouched
  /\ AddOnly

DuplicateCheckCompletes == \E check \in inFlight : CheckCompletes(check)

\* The other fields of the form.
EditOtherFields ==
  \E name \in MerchantTexts, amount \in TotalTexts, names \in ItemNameLists :
    /\ alert = "none"
    /\ <<name, amount, names>> # <<merchantText, totalText, itemNames>>
    /\ merchantText' = name
    /\ totalText' = amount
    /\ itemNames' = names
    /\ UNCHANGED <<purchaseDateTimeText, purchaseDateWarning, purchaseDateAcknowledged,
                   isSaving, activeCheck, inFlight, lastCheck, saving, alert>>
    /\ DbUntouched
    /\ AddOnly

\* lines 580-601: the checkbox of the warning card.
ToggleAcknowledged ==
  /\ alert = "none"
  /\ purchaseDateWarning
  /\ purchaseDateAcknowledged' = ~purchaseDateAcknowledged
  /\ UNCHANGED <<merchantText, purchaseDateTimeText, totalText, itemNames,
                 purchaseDateWarning, isSaving, activeCheck, inFlight, lastCheck, saving, alert>>
  /\ DbUntouched
  /\ AddOnly

\* line 350
FilteredItems == SelectSeq(itemNames, LAMBDA name : Len(Trim(name)) > 0)

\* lines 360-365 with 323-327: the receipt handleSave hands to insertReceipt.
FormReceipt ==
  [purchase_datetime |-> Val(ScanNormalized[purchaseDateTimeText]),
   subtotal |-> None, tax |-> None, total |-> parseOptionalNumber(totalText)]

\* lines 293-354: the alert handleSave stops at, or "none" when it goes on to
\* store the receipt.
HandleSaveAlert(forceDuplicate) ==
  IF purchaseDateWarning /\ ~purchaseDateAcknowledged THEN "acknowledge"
  ELSE IF Trim(merchantText) = "" THEN "missingMerchant"
  ELSE IF Trim(purchaseDateTimeText) = "" THEN "missingDate"
  ELSE IF ScanNormalized[purchaseDateTimeText] = None THEN "invalidDate"
  ELSE IF /\ ~IsTruthy(forceDuplicate)
          /\ hasPossibleDuplicateReceipt(receipts, FormReceipt.purchase_datetime,
                                         FormReceipt.total)
       THEN "possibleDuplicate"
  ELSE IF Len(FilteredItems) = 0 THEN "noItems"
  ELSE "none"

\* handleSave up to setIsSaving(true), lines 292-356.
BeginSave(forceDuplicate) ==
  IF isSaving THEN UNCHANGED <<isSaving, saving, alert>>
  ELSE IF HandleSaveAlert(forceDuplicate) # "none"
  THEN /\ alert' = HandleSaveAlert(forceDuplicate)
       /\ UNCHANGED <<isSaving, saving>>
  ELSE /\ isSaving' = TRUE
       /\ saving' = Some([receipt |-> FormReceipt,
                          forceDuplicate |-> forceDuplicate,
                          acknowledged |-> purchaseDateAcknowledged,
                          itemCount |-> Len(FilteredItems)])
       /\ UNCHANGED alert

\* lines 605-617: the Save button, enabled, calls handleSave with its press
\* event.  (The 'Save anyway' buttons of lines 342 and 413 stand on alerts
\* that handleSave raises only for a falsy forceDuplicate.)
PressSave ==
  /\ alert = "none"
  /\ ~(isSaving \/ (purchaseDateWarning /\ ~purchaseDateAcknowledged))
  /\ nextReceiptId <= MaxReceipts
  /\ BeginSave("event")
  /\ UNCHANGED <<merchantText, purchaseDateTimeText, totalText, itemNames,
                 purchaseDateWarning, purchaseDateAcknowledged, activeCheck, inFlight, lastCheck>>
  /\ DbUntouched
  /\ AddOnly

\* lines 372-394: one receipt_items row for each named item.
InsertedItems(receiptId, firstItemId, count) ==
  {[id |-> firstItemId + k - 1, receipt_id |-> receiptId] : k \in 1..count}

\* lines 357-422: the receipt and its items are inserted and 'Receipt saved'
\* is shown; when the unique index refuses the row, the catch block shows
\* 'Possible duplicate' for a falsy forceDuplicate and 'Save failed' otherwise.
FinishSave ==
  /\ saving # None
  /\ IF ViolatesUniqueKey(receipts,
          InsertedDedupeKey(Val(saving).receipt, IsTruthy(Val(saving).forceDuplicate)))
     THEN /\ alert' = IF ~IsTruthy(Val(saving).forceDuplicate)
                      THEN "possibleDuplicate" ELSE "failed"
          /\ DbUntouched
     ELSE /\ receipts' = receipts \cup
               {NewRow(nextReceiptId, Val(saving).receipt,
                       IsTruthy(Val(saving).forceDuplicate))}
          /\ nextReceiptId' = nextReceiptId + 1
          /\ receiptItems' = receiptItems \cup
               InsertedItems(nextReceiptId, nextItemId, Val(saving).itemCount)
          /\ nextItemId' = nextItemId + Val(saving).itemCount
          /\ dbReply' = Reply("insertReceipt", "inserted")
          /\ alert' = "saved"
  /\ isSaving' = FALSE
  /\ saving' = None
  /\ UNCHANGED <<merchantText, purchaseDateTimeText, totalText, itemNames,
                 purchaseDateWarning, purchaseDateAcknowledged, activeCheck, inFlight, lastCheck>>
  /\ AddOnly

\* An alert that only informs is dismissed.
DismissAlert ==
  /\ alert \notin {"none", "saved"}
  /\ alert' = "none"
  /\ UNCHANGED <<merchantText, purchaseDateTimeText, totalText, itemNames,
                 purchaseDateWarning, purchaseDateAcknowledged, isSaving, activeCheck, inFlight, lastCheck,
                 saving>>
  /\ DbUntouched
  /\ AddOnly

\* lines 396-401: OK on 'Receipt saved' leaves the screen; it opens anew for
\* the next receipt.
CloseAfterSave ==
  /\ alert = "saved"
  /\ merchantText' = ""
  /\ purchaseDateTimeText' = ""
  /\ totalText' = ""
  /\ itemNames' = <<>>
  /\ purchaseDateWarning' = FALSE
  /\ purchaseDateAcknowledged' = FALSE
  /\ activeCheck' = None
  /\ inFlight' = Deactivated(inFlight)
  /\ lastCheck' = None
  /\ alert' = "none"
  /\ UNCHANGED <<isSaving, saving>>
  /\ DbUntouched
  /\ AddOnly

NextAdd ==
  \/ EditPurchaseDateTime
  \/ TimerFires
  \/ DuplicateCheckCompletes
  \/ EditOtherFields
  \/ ToggleAcknowledged
  \/ PressSave
  \/ FinishSave
  \/ DismissAlert
  \/ CloseAfterSave

SpecAdd == InitAdd /\ [][NextAdd]_vars

(***************************************************************************)
(* The date-range filter of the list screens: filteredReceipts of          *)
(* src/app/index.tsx and filteredRows of src/unnamed/part_003.             *)
(***************************************************************************)
\* The purchase_datetime of the rows a list can hold.
RowDateTimes ==
  {"2025-02-28 23:59:59", "2025-03-01 00:00:00", "2025-03-01 23:59:59",
   "2025-03-02T12:00", "03/03/2025 10:00", ""}

\* The dates a picker can hand over: a day of the calendar at the time of
\* day the picker was opened.
PickedDates ==
  {NewDate(2025, 1, 28, 9, 30, 0), NewDate(2025, 2, 1, 0, 0, 0),
   NewDate(2025, 2, 2, 18, 45, 10)}

AllDigits(s, positions) == \A i \in positions : IsDigit(At(s, i))
PairAt(s, i) == DigitsToInt(Sub(s, i, i + 1))

\* part_003 lines 45-47: /^(\d{4})-(\d{2})-(\d{2})(?:[ T](\d{2}):(\d{2})(?::(\d{2}))?)?/i
IsoHasDate(s) ==
  AllDigits(s, {1, 2, 3, 4, 6, 7, 9, 10}) /\ At(s, 5) = "-" /\ At(s, 8) = "-"
IsoHasTime(s) ==
  At(s, 11) \in {" ", "T", "t"} /\ AllDigits(s, {12, 13, 15, 16}) /\ At(s, 14) = ":"
IsoHasSeconds(s) == IsoHasTime(s) /\ At(s, 17) = ":" /\ AllDigits(s, {18, 19})

\* part_003 lines 40-59
parseRowDateTime(value) ==
  IF Trim(value) = "" THEN None
  ELSE IF IsoHasDate(Trim(value))
       THEN buildDate(DigitsToInt(Sub(Trim(value), 1, 4)), PairAt(Trim(value), 6) - 1,
                      PairAt(Trim(value), 9),
                      IF IsoHasTime(Trim(value)) THEN PairAt(Trim(value), 12) ELSE 0,
                      IF IsoHasTime(Trim(value)) THEN PairAt(Trim(value), 15) ELSE 0,
                      IF IsoHasSeconds(Trim(value)) THEN PairAt(Trim(value), 18) ELSE 0)
       ELSE parseFlexibleDateTime(Trim(value))

\* The Date each screen makes of a row's purchase_datetime, each text parsed
\* once: index.tsx line 263, part_003 line 93.
RowDate ==
  [screen \in {"receipts", "items"} |->
     [text \in RowDateTimes |->
        IF screen = "receipts" THEN parseFlexibleDateTime(text)
        ELSE parseRowDateTime(text)]]

\* index.tsx lines 259-260, part_003 lines 89-90: the two ends of the range.
RangeStart(from) == IF from = None THEN None ELSE Some(startOfDay(Val(from)))
RangeEnd(screen, to) ==
  IF to = None THEN None
  ELSE IF screen = "receipts" THEN Some(endOfDay(Val(to)))
  ELSE Some(startOfDay(Val(to)))

\* index.tsx lines 262-274, part_003 lines 92-104: the filter's predicate.
KeepsRow(date, start, end) ==
  /\ date # None
  /\ ~(start # None /\ IsBefore(Val(date), Val(start)))
  /\ ~(end # None /\ IsBefore(Val(end), Val(date)))

\* index.tsx lines 254-275, part_003 lines 84-105
FilteredRows(screen, rows, from, to) ==
  IF from = None /\ to = None THEN rows
  ELSE {text \in rows :
          KeepsRow(RowDate[screen][text], RangeStart(from), RangeEnd(screen, to))}

InitList ==
  /\ listScreen \in {"receipts", "items"}
  /\ listRows \in SUBSET RowDateTimes
  /\ filterFrom = None
  /\ filterTo = None
  /\ shownRows = listRows
  /\ OcrAtRest
  /\ DateAtRest
  /\ DbAtRest
  /\ SaveAtRest
  /\ AiAtRest
  /\ AddAtRest
  /\ ProcAtRest

ListOnly == UNCHANGED <<ocrVars, dateVars, dbVars, saveVars, aiVars, addVars, procVars>>

\* index.tsx lines 351-360, part_003 lines 330-339: a date is picked for
\* 'From' and the list is filtered again.
PickFilterFrom ==
  \E selectedDate \in PickedDates :
    /\ filterFrom' = Some(startOfDay(selectedDate))
    /\ shownRows' = FilteredRows(listScreen, listRows, Some(startOfDay(selectedDate)),
                                 filterTo)
    /\ UNCHANGED <<listScreen, listRows, filterTo>>
    /\ ListOnly

\* index.tsx lines 376-385, part_003 lines 355-364: the same for 'To'.
PickFilterTo ==
  \E selectedDate \in PickedDates :
    /\ filterTo' = Some(startOfDay(selectedDate))
    /\ shownRows' = FilteredRows(listScreen, listRows, filterFrom,
                                 Some(startOfDay(selectedDate)))
    /\ UNCHANGED <<listScreen, listRows, filterFrom>>
    /\ ListOnly

\* index.tsx lines 389-394, part_003 lines 368-373: the filter is cleared.
ClearFilter ==
  /\ filterFrom # None \/ filterTo # None
  /\ filterFrom' = None
  /\ filterTo' = None
  /\ shownRows' = FilteredRows(listScreen, listRows, None, None)
  /\ UNCHANGED <<listScreen, listRows>>
  /\ ListOnly

NextList ==
  \/ PickFilterFrom
  \/ PickFilterTo
  \/ ClearFilter

SpecList == InitList /\ [][NextList]_vars

(***************************************************************************)
(* Two handleSave calls without forceDuplicate, part_006 lines 292-423:    *)
(* each asks hasPossibleDuplicateReceipt, then calls insertReceipt.  The   *)
(* two awaits are two steps, so the calls interleave.                      *)
(***************************************************************************)
\* What the two calls carry: the receipts of the model and one whose total
\* has a third decimal.
SaveInputs ==
  NewReceipts \cup
    {[purchase_datetime |-> "2025-03-01 10:00:00", subtotal |-> None, tax |-> None,
      total |-> Some(10 * Scale + 4)]}

\* lines 326-327: totalValue ?? (subtotal + tax when both are known)
computedTotal(input) == RowTotal(input)

\* lines 357-366: the receipt handed to insertReceipt.
SavedReceipt(input) == [input EXCEPT !.total = computedTotal(input)]

InitRace ==
  /\ ProcAtRest
  /\ OcrAtRest
  /\ DateAtRest
  /\ DbAtRest
  /\ SaveAtRest
  /\ AiAtRest
  /\ AddAtRest
  /\ ListAtRest

ProcOnly == UNCHANGED <<ocrVars, dateVars, saveVars, aiVars, addVars, listVars>>

\* lines 329-347: the duplicate query answers; a duplicate ends the call with
\* the 'Possible duplicate' alert.
QueryDuplicate(p) ==
  \E input \in SaveInputs :
    /\ ops[p].pc = "idle"
    /\ ops' = [ops EXCEPT ![p] =
         [Idle EXCEPT !.kind = "save",
                      !.arg = Some(SavedReceipt(input)),
                      !.pc = IF hasPossibleDuplicateReceipt(receipts, input.purchase_datetime,
                                                            computedTotal(input))
                             THEN "alerted" ELSE "checked"]]
    /\ UNCHANGED <<dbVars, txActive, txSnapshot, applied>>
    /\ ProcOnly

\* lines 355-370 and 403-418: insertReceipt stores the row, or the unique
\* index refuses it and the catch block shows the alert.
InsertChecked(p) ==
  /\ ops[p].pc = "checked"
  /\ nextReceiptId <= MaxReceipts
  /\ IF ViolatesUniqueKey(receipts, InsertedDedupeKey(Val(ops[p].arg), FALSE))
     THEN /\ ops' = [ops EXCEPT ![p].pc = "refused"]
          /\ UNCHANGED <<receipts, nextReceiptId>>
     ELSE /\ ops' = [ops EXCEPT ![p].pc = "saved"]
          /\ receipts' = receipts \cup {NewRow(nextReceiptId, Val(ops[p].arg), FALSE)}
          /\ nextReceiptId' = nextReceiptId + 1
  /\ dbReply' = Reply("insertReceipt",
                      IF ops'[p].pc = "saved" THEN "inserted" ELSE "constraint")
  /\ UNCHANGED <<receiptItems, nextItemId, txActive, txSnapshot, applied>>
  /\ ProcOnly

\* The alert is dismissed and the form can be saved again.
DismissSaveAlert(p) ==
  /\ ops[p].pc \in {"alerted", "refused", "saved"}
  /\ ops' = [ops EXCEPT ![p] = Idle]
  /\ UNCHANGED <<dbVars, txActive, txSnapshot, applied>>
  /\ ProcOnly

NextRace ==
  \/ \E p \in Procs : QueryDuplicate(p)
  \/ \E p \in Procs : InsertChecked(p)
  \/ \E p \in Procs : DismissSaveAlert(p)

SpecRace == InitRace /\ [][NextRace]_vars

(***************************************************************************)
(* The transactional operations of db.ts on the one connection of getDb    *)
(* (lines 6-14): importReceiptBackup, replaceReceiptItems, deleteReceipt.  *)
(* Every awaited statement is a step.                                      *)
(***************************************************************************)
\* The receipt the calls replace the items of, or delete.
TargetReceiptId == 1

\* The items replaceReceiptItems is given.
ReplacementItems == {<<>>, <<"Milk">>, <<"Milk", "Bread">>}

TxCalls ==
  {[kind |-> "import", arg |-> Some(backup)] : backup \in Backups}
    \cup {[kind |-> "replace", arg |-> Some(newItems)] : newItems \in ReplacementItems}
    \cup {[kind |-> "delete", arg |-> None]}

\* The tables as a ROLLBACK restores them.
Tables ==
  [receipts |-> receipts, receiptItems |-> receiptItems,
   nextReceiptId |-> nextReceiptId, nextItemId |-> nextItemId, applied |-> applied]

StoredReceipt ==
  NewRow(1, CHOOSE r \in NewReceipts : r.total = Amount(10, 0), FALSE)

InitTx ==
  /\ \/ DbAtRest
     \/ /\ receipts = {StoredReceipt}
        /\ receiptItems = {[id |-> 1, receipt_id |-> 1]}
        /\ nextReceiptId = 2
        /\ nextItemId = 2
        /\ dbReply = NoReply
  /\ ProcAtRest
  /\ OcrAtRest
  /\ DateAtRest
  /\ SaveAtRest
  /\ AiAtRest
  /\ AddAtRest
  /\ ListAtRest

\* The SQL statements the call runs between BEGIN and COMMIT when nothing
\* fails.
StatementsOf(call) ==
  IF call.kind = "import"
  THEN Len(Val(call.arg).receipts) + Cardinality(ImportedItemIndexes(Val(call.arg)))
  ELSE IF call.kind = "replace" THEN 1 + Len(Val(call.arg))
  ELSE IF call.kind = "delete" THEN 2
  ELSE 0

\* A BEGIN inside the try block: its error would enter the catch block.
InsideTryBlock == "caught"

\* Where a call stands when its BEGIN is refused: line 249, 474 and 504 are
\* before the try block, so the error leaves the function.
AfterRefusedBegin == "threw"

\* A catch block that leaves the tables as they are.
WithoutRollback(snapshot, current) == current

\* lines 291-294, 496-499, 509-512: what the tables hold after ROLLBACK.
AfterRollback(snapshot, current) == snapshot

\* A function is called.  importReceiptBackup (lines 241-246) throws on a
\* backup it does not support before it touches the connection.
Call(p) ==
  \E call \in TxCalls :
    /\ ops[p].pc = "idle"
    /\ ops' = [ops EXCEPT ![p] =
         [Idle EXCEPT !.kind = call.kind,
                      !.arg = call.arg,
                      !.pc = IF call.kind = "import" /\ ~IsSupportedBackup(Val(call.arg))
                             THEN "threw" ELSE "begin"]]
    /\ applied' = [applied EXCEPT ![p] = 0]
    /\ UNCHANGED <<dbVars, txActive, txSnapshot>>
    /\ ProcOnly

\* lines 249, 474, 504: BEGIN.  SQLite refuses a BEGIN inside a transaction.
Begin(p) ==
  /\ ops[p].pc = "begin"
  /\ IF txActive
     THEN /\ ops' = [ops EXCEPT ![p].pc = AfterRefusedBegin]
          /\ UNCHANGED <<txActive, txSnapshot>>
     ELSE /\ ops' = [ops EXCEPT ![p].pc = IF ops[p].kind = "import" THEN "receipts"
                                          ELSE "deleteItems",
                                ![p].k = 1,
                                ![p].before = Some(Tables)]
          /\ txActive' = TRUE
          /\ txSnapshot' = Some(Tables)
  /\ UNCHANGED <<dbVars, applied>>
  /\ ProcOnly

\* receiptIdMap.set and receiptIdMap.get
MapSet(map, legacyId, newId) == {m \in map : m[1] # legacyId} \cup {<<legacyId, newId>>}
MapHas(map, legacyId) == \E m \in map : m[1] = legacyId
MapGet(map, legacyId) == (CHOOSE m \in map : m[1] = legacyId)[2]

\* lines 253-264: the next receipt of the backup is inserted with
\* allowDuplicate and its new id is noted.
ImportReceipt(p) ==
  /\ ops[p].pc = "receipts"
  /\ IF ops[p].k <= Len(Val(ops[p].arg).receipts)
     THEN /\ receipts' = receipts \cup
                {NewRow(nextReceiptId, Val(ops[p].arg).receipts[ops[p].k], TRUE)}
          /\ nextReceiptId' = nextReceiptId + 1
          /\ ops' = [ops EXCEPT
               ![p].k = @ + 1,
               ![p].receiptIdMap =
                 MapSet(@, Val(ops[p].arg).receipts[ops[p].k].id, nextReceiptId)]
          /\ applied' = [applied EXCEPT ![p] = @ + 1]
     ELSE /\ ops' = [ops EXCEPT ![p].pc = "items", ![p].k = 1]
          /\ UNCHANGED <<receipts, nextReceiptId, applied>>
  /\ UNCHANGED <<receiptItems, nextItemId, dbReply, txActive, txSnapshot>>
  /\ ProcOnly

\* lines 266-282: the next item of the backup is inserted under the new id
\* of its receipt, or skipped.
ImportItem(p) ==
  /\ ops[p].pc = "items"
  /\ IF ops[p].k > Len(Val(ops[p].arg).items)
     THEN /\ ops' = [ops EXCEPT ![p].pc = "commit"]
          /\ UNCHANGED <<receiptItems, nextItemId, applied>>
     ELSE IF MapHas(ops[p].receiptIdMap, Val(ops[p].arg).items[ops[p].k].receipt_id)
     THEN /\ receiptItems' = receiptItems \cup
                {[id |-> nextItemId,
                  receipt_id |-> MapGet(ops[p].receiptIdMap,
                                        Val(ops[p].arg).items[ops[p].k].receipt_id)]}
          /\ nextItemId' = nextItemId + 1
          /\ ops' = [ops EXCEPT ![p].k = @ + 1, ![p].itemsImported = @ + 1]
          /\ applied' = [applied EXCEPT ![p] = @ + 1]
     ELSE /\ ops' = [ops EXCEPT ![p].k = @ + 1, ![p].skippedItems = @ + 1]
          /\ UNCHANGED <<receiptItems, nextItemId, applied>>
  /\ UNCHANGED <<receipts, nextReceiptId, dbReply, txActive, txSnapshot>>
  /\ ProcOnly

\* lines 476 and 506: DELETE FROM receipt_items WHERE receipt_id = ?
DeleteItems(p) ==
  /\ ops[p].pc = "deleteItems"
  /\ receiptItems' = {item \in receiptItems : item.receipt_id # TargetReceiptId}
  /\ ops' = [ops EXCEPT ![p].pc = IF ops[p].kind = "replace" THEN "insertItems"
                                  ELSE "deleteReceipt"]
  /\ applied' = [applied EXCEPT ![p] = @ + 1]
  /\ UNCHANGED <<receipts, nextReceiptId, nextItemId, dbReply, txActive, txSnapshot>>
  /\ ProcOnly

\* lines 478-493: the next of the new items is inserted.
InsertItem(p) ==
  /\ ops[p].pc = "insertItems"
  /\ IF ops[p].k <= Len(Val(ops[p].arg))
     THEN /\ receiptItems' = receiptItems \cup
                {[id |-> nextItemId, receipt_id |-> TargetReceiptId]}
          /\ nextItemId' = nextItemId + 1
          /\ ops' = [ops EXCEPT ![p].k = @ + 1]
          /\ applied' = [applied EXCEPT ![p] = @ + 1]
     ELSE /\ ops' = [ops EXCEPT ![p].pc = "commit"]
          /\ UNCHANGED <<receiptItems, nextItemId, applied>>
  /\ UNCHANGED <<receipts, nextReceiptId, dbReply, txActive, txSnapshot>>
  /\ ProcOnly

\* line 507: DELETE FROM receipts WHERE id = ?
DeleteReceiptRow(p) ==
  /\ ops[p].pc = "deleteReceipt"
  /\ receipts' = {row \in receipts : row.id # TargetReceiptId}
  /\ ops' = [ops EXCEPT ![p].pc = "commit"]
  /\ applied' = [applied EXCEPT ![p] = @ + 1]
  /\ UNCHANGED <<receiptItems, nextReceiptId, nextItemId, dbReply, txActive, txSnapshot>>
  /\ ProcOnly

\* The call is at a statement of its try block.
AtStatement(p) ==
  \/ ops[p].pc = "receipts" /\ ops[p].k <= Len(Val(ops[p].arg).receipts)
  \/ /\ ops[p].pc = "items"
     /\ ops[p].k <= Len(Val(ops[p].arg).items)
     /\ MapHas(ops[p].receiptIdMap, Val(ops[p].arg).items[ops[p].k].receipt_id)
  \/ ops[p].pc \in {"deleteItems", "deleteReceipt"}
  \/ ops[p].pc = "insertItems" /\ ops[p].k <= Len(Val(ops[p].arg))

\* runAsync rejects: the statement changes nothing and the catch block is
\* entered.
StatementFails(p) ==
  /\ AtStatement(p)
  /\ ops' = [ops EXCEPT ![p].pc = "caught"]
  /\ UNCHANGED <<dbVars, txActive, txSnapshot, applied>>
  /\ ProcOnly

\* lines 284, 495, 508: COMMIT; without a transaction it fails and the catch
\* block is entered.
Commit(p) ==
  /\ ops[p].pc = "commit"
  /\ IF txActive
     THEN /\ txActive' = FALSE
          /\ txSnapshot' = None
          /\ ops' = [ops EXCEPT ![p].pc = "returned"]
     ELSE /\ ops' = [ops EXCEPT ![p].pc = "caught"]
          /\ UNCHANGED <<txActive, txSnapshot>>
  /\ UNCHANGED <<dbVars, applied>>
  /\ ProcOnly

\* lines 291-294, 496-499, 509-512: ROLLBACK, then the error is thrown again.
\* Without a transaction ROLLBACK itself fails and changes nothing.
Rollback(p) ==
  /\ ops[p].pc = "caught"
  /\ IF txActive
     THEN /\ receipts' = AfterRollback(Val(txSnapshot), Tables).receipts
          /\ receiptItems' = AfterRollback(Val(txSnapshot), Tables).receiptItems
          /\ nextReceiptId' = AfterRollback(Val(txSnapshot), Tables).nextReceiptId
          /\ nextItemId' = AfterRollback(Val(txSnapshot), Tables).nextItemId
          /\ applied' = AfterRollback(Val(txSnapshot), Tables).applied
          /\ txActive' = FALSE
          /\ txSnapshot' = None
     ELSE UNCHANGED <<receipts, receiptItems, nextReceiptId, nextItemId, applied,
                      txActive, txSnapshot>>
  /\ ops' = [ops EXCEPT ![p].pc = "threw"]
  /\ UNCHANGED dbReply
  /\ ProcOnly

\* The caller has its answer: the promise is settled.
Settle(p) ==
  /\ ops[p].pc \in {"returned", "threw"}
  /\ ops' = [ops EXCEPT ![p].pc = IF @ = "returned" THEN "fulfilled" ELSE "rejected"]
  /\ UNCHANGED <<dbVars, txActive, txSnapshot, applied>>
  /\ ProcOnly

StepOf(p) ==
  \/ Call(p)
  \/ Begin(p)
  \/ ImportReceipt(p)
  \/ ImportItem(p)
  \/ DeleteItems(p)
  \/ InsertItem(p)
  \/ DeleteReceiptRow(p)
  \/ StatementFails(p)
  \/ Commit(p)
  \/ Rollback(p)
  \/ Settle(p)

NextTx == \E p \in Procs : StepOf(p)

SpecTx == InitTx /\ [][NextTx]_vars

\* One caller alone on the connection.
NextAlone == StepOf(1)

SpecAlone == InitTx /\ [][NextAlone]_vars
(***************************************************************************)
(* Properties.                                                             *)
(***************************************************************************)
\* C1: parseReceiptItems on the single line '0.78 kg @ 2.16/kg 1.69' (a
\* weight, a per-unit price with a '/kg' suffix, then a final amount) returns
\* exactly one item, with qty 0.78, unitPrice 2.16 and lineTotal 1.69.
C1_WeightLineYieldsOneItem ==
  (ocrPc = "done" /\ rawText = "0.78 kg @ 2.16/kg 1.69") =>
    /\ Len(items) = 1
    /\ items[1].qty = Some(780)
    /\ items[1].unitPrice = Some(2160)
    /\ items[1].lineTotal = Some(1690)

\* C2: the priced line 'Apples 2 @ 1.50 3.00' (a description with letters, an
\* inline 'N @ price' fragment and a final amount) yields an item whose qty
\* and unitPrice are the fragment's, whose lineTotal is the final amount and
\* whose description no longer holds the fragment.
C2_InlineFragmentGivesQtyAndPrice ==
  (ocrPc = "done" /\ rawText = "Apples 2 @ 1.50 3.00") =>
    /\ Len(items) = 1
    /\ items[1] = [description |-> "Apples", qty |-> Some(2000),
                   unitPrice |-> Some(1500), lineTotal |-> Some(3000)]

C3_IsLeapYear(year) == year % 4 = 0 /\ (year % 100 # 0 \/ year % 400 = 0)

C3_DaysInMonth(year, month) ==
  IF month = 2 THEN (IF C3_IsLeapYear(year) THEN 29 ELSE 28)
  ELSE IF month \in {4, 6, 9, 11} THEN 30 ELSE 31

\* The arguments of buildDate (month counted from 0) that name no day or no
\* time of the calendar.
C3_OutOfRange(f) ==
  \/ f.month + 1 \notin 1..12
  \/ f.day \notin 1..C3_DaysInMonth(f.year, f.month + 1)
  \/ f.hour \notin 0..23
  \/ f.minute \notin 0..59
  \/ f.second \notin 0..59

\* C3: parseFlexibleDateTime returns null for every string that one of the
\* patterns (ymd, dmy, current-year YY/MM/DD) matches with a day, month,
\* hour, minute or second out of range; it returns no date moved into an
\* adjacent day, month or year.
C3_OutOfRangeDateIsRejected ==
  (datePc = "done" /\ dateFields # None /\ C3_OutOfRange(Val(dateFields))) =>
    /\ dateResult = None
    /\ dateText = None

\* C4: after any sequence of insertReceipt, updateReceiptDetails,
\* deleteReceipt and importReceiptBackup, every stored receipt's dedupe_key is
\* null or the key derived from its current purchase_datetime and total.
C4_DedupeKeyIsDerived ==
  \A row \in receipts :
    \/ row.dedupe_key = None
    \/ row.dedupe_key = createReceiptDedupeKey(row.purchase_datetime, row.total)

\* What a field of the next item is, given the line's own value and the value
\* a buffered unit line holds.
C5_Filled(own, fromBuffer) == IF own = None THEN fromBuffer ELSE own

\* A unit-only line met before any item emits nothing and is buffered.
C5_UnitOnlyLineIsBuffered ==
  (UnitOnlyLine /\ Len(items) = 0) =>
    /\ items' = items
    /\ unitLine # None
    /\ pendingUnit' = unitLine

\* The item an emitting step pushes.
C5_Emitted == items'[Len(items')]

\* C5 (as amended): while no item has been emitted, a unit-only line emits
\* nothing and is buffered in place of any unit line buffered before it; the
\* next emitted item receives the qty and the unitPrice of the unit line
\* buffered last, each in the field the item's line gives no value of its
\* own, and the buffer is then cleared, so that no later item receives it.
C5_LastBufferedUnitFillsNextItem ==
  [][/\ C5_UnitOnlyLineIsBuffered
     /\ EmitItem =>
          /\ pendingUnit' = None
          /\ IF Len(items) = 0 /\ Len(buffered) > 0
             THEN /\ C5_Emitted.qty =
                       C5_Filled(OwnQty(DescriptionPart), buffered[Len(buffered)].qty)
                  /\ C5_Emitted.unitPrice =
                       C5_Filled(OwnUnitPrice(DescriptionPart),
                                 buffered[Len(buffered)].unitPrice)
             ELSE /\ C5_Emitted.qty = OwnQty(DescriptionPart)
                  /\ OwnUnitPrice(DescriptionPart) # None =>
                       C5_Emitted.unitPrice = OwnUnitPrice(DescriptionPart)
                  /\ (OwnUnitPrice(DescriptionPart) = None /\ C5_Emitted.qty = None) =>
                       C5_Emitted.unitPrice = None]_vars

\* Two different unit-only lines came before the first item; the item took
\* its quantity and its unit price from the second, and the buffer is empty.
C5_SecondUnitLineFilledItem ==
  /\ branch = "emit"
  /\ Len(items) = 1
  /\ Len(buffered) = 2
  /\ buffered[1].qty # buffered[2].qty
  /\ items[1].qty = buffered[2].qty
  /\ items[1].unitPrice = buffered[2].unitPrice
  /\ pendingUnit = None

\* C5 (as stated): every unit-only line met before any item is buffered, and
\* the next emitted item receives that line's qty and unitPrice in the fields
\* it has no value of its own for; the buffer is then cleared.
C5_EveryBufferedUnitFillsNextItem ==
  [][/\ C5_UnitOnlyLineIsBuffered
     /\ (EmitItem /\ Len(items) = 0) =>
          /\ pendingUnit' = None
          /\ \A k \in 1..Len(buffered) :
               /\ C5_Emitted.qty = C5_Filled(OwnQty(DescriptionPart), buffered[k].qty)
               /\ C5_Emitted.unitPrice =
                    C5_Filled(OwnUnitPrice(DescriptionPart), buffered[k].unitPrice)]_vars

\* A stored receipt whose parsed purchase datetime is within the tolerance of
\* the candidate's.
C6_IsNear(row, purchaseDateTime) ==
  /\ ParsedPurchaseDateTime[row.purchase_datetime] # None
  /\ ParsedPurchaseDateTime[purchaseDateTime] # None
  /\ TimesWithin(Val(ParsedPurchaseDateTime[row.purchase_datetime]),
                 Val(ParsedPurchaseDateTime[purchaseDateTime]), DefaultToleranceMs)

\* Both totals are known and differ by at most 0.01.
C6_TotalsWithinOneCent(row, total) ==
  /\ total # None
  /\ RowTotal(row) # None
  /\ Abs(Val(RowTotal(row)) - Val(total)) <= Cent

\* C6: with the default tolerance of 60000 ms hasReceiptWithPurchaseDate
\* reports a duplicate when some stored receipt lies at most 60 seconds from
\* the candidate and the totals differ by at most 0.01, and reports none when
\* every stored receipt lies more than 60 seconds away.
C6_DuplicateWithinToleranceAndCent ==
  dbReply.op = "hasReceiptWithPurchaseDate" =>
    /\ (\E row \in receipts :
          /\ C6_IsNear(row, dbReply.purchaseDateTime)
          /\ C6_TotalsWithinOneCent(row, dbReply.total))
         => dbReply.outcome = "duplicate"
    /\ (\A row \in receipts : ~C6_IsNear(row, dbReply.purchaseDateTime))
         => dbReply.outcome = "new"

\* A field the user supplied is stored as the number the user typed.
C7_Kept(text, stored) ==
  parseOptionalNumber(text) # None => stored = parseOptionalNumber(text)

\* C7: reconciliation at save time never changes a value the user supplied:
\* each of qty, unit price and line total that was non-null on input is
\* stored with exactly that value.
C7_SuppliedValuesAreStoredUnchanged ==
  savedItem # None =>
    /\ C7_Kept(draftItem.qty, Val(savedItem).qty)
    /\ C7_Kept(draftItem.price, Val(savedItem).unit_price)
    /\ C7_Kept(draftItem.lineTotal, Val(savedItem).line_total)

\* stored is a whole number of cents, the nearest to qty * unitPrice.
C8_IsProductToCents(stored, qty, unitPrice) ==
  /\ stored % Cent = 0
  /\ 2 * Abs(stored * Scale - qty * unitPrice) <= Cent * Scale

\* stored is a whole number of cents, the nearest to lineTotal / qty.
C8_IsQuotientToCents(stored, lineTotal, qty) ==
  /\ stored % Cent = 0
  /\ 2 * Abs(stored * qty - lineTotal * Scale) <= Cent * Abs(qty)

C8_Qty == parseOptionalNumber(draftItem.qty)
C8_UnitPrice == parseOptionalNumber(draftItem.price)
C8_LineTotal == parseOptionalNumber(draftItem.lineTotal)

\* C8: reconciliation at save time fills the missing field from the other
\* two: a null lineTotal becomes qty * unitPrice rounded to 2 decimals when
\* both are known; a null unitPrice becomes lineTotal / qty rounded to 2
\* decimals when lineTotal is known and qty is known and nonzero, and stays
\* null when qty is null or zero; (2, null, 5.00) gives unitPrice 2.50 and
\* (null, null, 5.00) is stored as it came.
C8_MissingFieldIsDerived ==
  savedItem # None =>
    /\ (C8_LineTotal = None /\ C8_Qty # None /\ C8_UnitPrice # None) =>
         /\ Val(savedItem).line_total # None
         /\ C8_IsProductToCents(Val(Val(savedItem).line_total), Val(C8_Qty),
                                Val(C8_UnitPrice))
    /\ (C8_LineTotal = None /\ (C8_Qty = None \/ C8_UnitPrice = None)) =>
         Val(savedItem).line_total = None
    /\ (C8_UnitPrice = None /\ C8_LineTotal # None /\ C8_Qty # None /\ Val(C8_Qty) # 0) =>
         /\ Val(savedItem).unit_price # None
         /\ C8_IsQuotientToCents(Val(Val(savedItem).unit_price), Val(C8_LineTotal),
                                 Val(C8_Qty))
    /\ (C8_UnitPrice = None /\ (C8_Qty = None \/ Val(C8_Qty) = 0)) =>
         Val(savedItem).unit_price = None
    /\ (draftItem.qty = "2" /\ draftItem.price = "" /\ draftItem.lineTotal = "5.00") =>
         Val(savedItem) = [qty |-> Some(2000), unit_price |-> Some(2500),
                           line_total |-> Some(5000)]
    /\ (draftItem.qty = "" /\ draftItem.price = "" /\ draftItem.lineTotal = "5.00") =>
         Val(savedItem) = [qty |-> None, unit_price |-> None, line_total |-> Some(5000)]

\* An item saved with quantity 3 and line total 5.00 and no unit price: the
\* unit price stored is 1.67.
C8_UnitPriceDerivedFromThirds ==
  /\ savedItem # None
  /\ draftItem = [qty |-> "3", price |-> "", lineTotal |-> "5.00"]
  /\ Val(savedItem).unit_price = Some(1670)

\* C9: reconciliation is idempotent: the save-time reconciliation applied to
\* its own output triple (qty, unitPrice, lineTotal) returns that triple.
C9_ReconciliationIsIdempotent ==
  resavedItem # None => resavedItem = savedItem

\* An item whose line total and unit price were both derived and rounded on
\* the first save has been saved a second time.
C9_DerivedItemSavedTwice ==
  /\ resavedItem # None
  /\ draftItem = [qty |-> " 1.5 ", price |-> "1.999", lineTotal |-> ""]
  /\ Val(resavedItem).line_total = Some(3000)
  /\ Val(resavedItem).unit_price = Some(2000)

\* keyword stands in line at position i, whatever the case of the line.
C10_KeywordAt(line, i, keyword) ==
  /\ i + Len(keyword) - 1 <= Len(line)
  /\ \A j \in 1..Len(keyword) : ToLowerChar(At(line, i + j - 1)) = At(keyword, j)

C10_MentionsKeyword(line) ==
  \E k \in 1..Len(IGNORE_LINE_KEYWORDS), i \in 1..Len(line) :
    C10_KeywordAt(line, i, IGNORE_LINE_KEYWORDS[k])

C10_RawLines == SplitLines(rawText)

\* C10: every input line that holds an ignore keyword as a case-insensitive
\* substring is removed before classification: no line the loop classifies
\* holds one, so the items and the two buffers change only on lines without
\* a keyword; an input made only of such lines yields the empty list.
C10_KeywordLinesAreRemoved ==
  /\ [](ocrPc \in {"line", "scanned", "done"} =>
          /\ \A i \in 1..Len(lines) : ~C10_MentionsKeyword(lines[i])
          /\ Len(lines) =
               Cardinality({i \in 1..Len(C10_RawLines) :
                              /\ Trim(CollapseSpaces(C10_RawLines[i])) # ""
                              /\ ~C10_MentionsKeyword(C10_RawLines[i])}))
  /\ [][(\/ items' # items
         \/ pendingUnit' # pendingUnit
         \/ pendingDescription' # pendingDescription) =>
          /\ ocrPc = "scanned"
          /\ ~C10_MentionsKeyword(lines[lineNo])]_vars
  /\ []((/\ ocrPc = "done"
         /\ \A i \in 1..Len(C10_RawLines) : C10_MentionsKeyword(C10_RawLines[i])) =>
          items = <<>>)

\* A keyword line stood between a buffered unit line and the item: the parse
\* is over, the keyword line is gone and the item holds the buffered values.
C10_KeywordLineBetweenUnitAndItem ==
  /\ ocrPc = "done"
  /\ Len(C10_RawLines) = 3
  /\ C10_MentionsKeyword(C10_RawLines[2])
  /\ Len(lines) = 2
  /\ Len(buffered) = 1
  /\ Len(items) = 1
  /\ itemLine = <<2>>
  /\ items[1].qty = buffered[1].qty

\* The result without items and with every field null.
C11_EmptyResult ==
  [items |-> <<>>, merchant |-> None, purchase_datetime |-> None,
   subtotal |-> None, tax |-> None, total |-> None]

\* C11: for every content string (empty, not JSON, JSON null, a JSON scalar
\* or array, an object whose 'items' is missing or not an array)
\* parseReceiptDataFromContent returns a result and never throws: the call
\* can always take its next step until it has returned, and what it returns
\* is a result; for an empty content and for one that is not valid JSON that
\* result is the empty one.
C11_AlwaysReturnsAndEmptyOnBadContent ==
  /\ aiPc \in {"start", "tried"} => ENABLED NextAi
  /\ aiPc = "done" =>
       /\ aiResult # None
       /\ DOMAIN Val(aiResult) = DOMAIN C11_EmptyResult
       /\ (aiContent.isEmpty \/ aiContent.parse = SyntaxError) =>
            Val(aiResult) = C11_EmptyResult

\* The content was the JSON text null: reading it threw inside the try
\* block, the error was caught and the empty result returned.
C11_JsonNullCaught ==
  /\ aiPc = "done"
  /\ aiContent.parse = JsNull
  /\ aiThrown = "TypeError"
  /\ aiResult = Some(C11_EmptyResult)

C12_IsNullOrFinite(x) == x = None \/ Val(x) \in Int

\* An element of 'items' whose name is a string with more than white space.
C12_HasUsableName(elem) ==
  /\ elem.kind = "object"
  /\ "name" \in DOMAIN elem.val
  /\ elem.val.name.kind = "string"
  /\ \E i \in 1..Len(elem.val.name.val) : ~IsSpace(At(elem.val.name.val, i))

\* The trimmed names of the usable elements of 'items', in input order.
C12_UsableNames(itemsValue) ==
  IF itemsValue.kind # "array" THEN <<>>
  ELSE LET usable == SelectSeq(itemsValue.val, C12_HasUsableName)
       IN  [k \in 1..Len(usable) |-> Trim(usable[k].val.name.val)]

\* a is b with some of its elements left out.
RECURSIVE C12_IsSubsequence(_, _)
C12_IsSubsequence(a, b) ==
  IF a = <<>> THEN TRUE
  ELSE IF b = <<>> THEN FALSE
  ELSE IF Head(a) = Head(b) THEN C12_IsSubsequence(Tail(a), Tail(b))
  ELSE C12_IsSubsequence(a, Tail(b))

C12_ResultNames == [k \in 1..Len(Val(aiResult).items) |-> Val(aiResult).items[k].name]

\* C12: every item of a normalized AI result has a non-empty name without
\* leading or trailing white space, and each of its qty, price and
\* line_total is null or a finite number; the input items whose name is not
\* a string or is empty after trimming are absent, and the kept items stand
\* in their input order.
C12_ItemsAreNamedFiniteAndOrdered ==
  (aiPc = "done" /\ ~aiContent.isEmpty /\ aiContent.parse # SyntaxError) =>
    /\ \A k \in 1..Len(Val(aiResult).items) :
         LET item == Val(aiResult).items[k]
         IN  /\ Len(item.name) > 0
             /\ ~IsSpace(At(item.name, 1))
             /\ ~IsSpace(At(item.name, Len(item.name)))
             /\ C12_IsNullOrFinite(item.qty)
             /\ C12_IsNullOrFinite(item.price)
             /\ C12_IsNullOrFinite(item.line_total)
    /\ C12_IsSubsequence(C12_ResultNames,
                         C12_UsableNames(Prop(aiContent.parse, "items")))

\* Two items were kept in their input order, the first with its name
\* trimmed, the second with a quantity that was no number turned to null.
C12_TwoItemsKeptInOrder ==
  /\ aiPc = "done"
  /\ aiResult # None
  /\ Len(Val(aiResult).items) = 2
  /\ Val(aiResult).items[1].name = "Milk 2L"
  /\ Val(aiResult).items[2].name = "Eggs"
  /\ Val(aiResult).items[2].qty = None
  /\ Val(aiResult).items[2].price = None

C13_AllDigits(text, positions) == \A i \in positions : IsDigit(At(text, i))

\* text is written YYYY-MM-DD, YYYY-MM-DD HH:MM or YYYY-MM-DD HH:MM:SS.
C13_IsCanonicalShape(text) ==
  /\ Len(text) \in {10, 16, 19}
  /\ C13_AllDigits(text, {1, 2, 3, 4, 6, 7, 9, 10})
  /\ At(text, 5) = "-" /\ At(text, 8) = "-"
  /\ Len(text) >= 16 =>
       /\ At(text, 11) = " " /\ At(text, 14) = ":"
       /\ C13_AllDigits(text, {12, 13, 15, 16})
  /\ Len(text) = 19 => At(text, 17) = ":" /\ C13_AllDigits(text, {18, 19})

C13_Number(text, i) == DigitsToInt(Sub(text, i, i + 1))

\* The text names a day of the calendar and a time of the day.
C13_IsValidDateTime(text) ==
  /\ C13_IsCanonicalShape(text)
  /\ C13_Number(text, 6) \in 1..12
  /\ C13_Number(text, 9) \in
       1..C3_DaysInMonth(DigitsToInt(Sub(text, 1, 4)), C13_Number(text, 6))
  /\ Len(text) >= 16 => C13_Number(text, 12) <= 23 /\ C13_Number(text, 15) <= 59
  /\ Len(text) = 19 => C13_Number(text, 18) <= 59

\* The text with the time components it lacks as 00.
C13_Completed(text) ==
  IF Len(text) = 10 THEN text \o " 00:00:00"
  ELSE IF Len(text) = 16 THEN text \o ":00" ELSE text

\* C13: for every valid calendar date and time written 'YYYY-MM-DD
\* HH:MM:SS' normalizeReceiptDateTime returns the same string; for
\* 'YYYY-MM-DD' and 'YYYY-MM-DD HH:MM' it returns that date with the missing
\* time components as 00.
C13_CanonicalTextIsFixedPoint ==
  (datePc = "done" /\ ~preferCurrentYear /\ C13_IsValidDateTime(dateValue)) =>
    dateText = Some(C13_Completed(dateValue))

C14_Normalized == NormalizedDateText(dateValue)

\* The input fully matches YY[/.-]M[/.-]D with an optional time, and YY is
\* the current year mod 100.
C14_IsCurrentShortYear ==
  /\ ShortYearMatch(C14_Normalized) # None
  /\ Val(ShortYearMatch(C14_Normalized)).first = currentYear % 100

\* What the same text comes to without preferCurrentYear.
C14_WithoutPreference ==
  IF PatternReading(C14_Normalized, FALSE, 0).name = "none" THEN EngineParses
  ELSE {DateOfReading(PatternReading(C14_Normalized, FALSE, 0))}

\* C14: with preferCurrentYear set, an input that fully matches
\* YY[/.-]M[/.-]D with an optional time is read year-first, as year 2000+YY,
\* only when YY is the current year mod 100; in every other case the result
\* is that of parsing the same text without preferCurrentYear; '14/01/25' in
\* 2025 gives 2025-01-14 00:00:00 through the day-first path.
C14_ShortYearOnlyForCurrentYear ==
  (datePc = "done" /\ preferCurrentYear /\ C14_Normalized # "") =>
    /\ IF C14_IsCurrentShortYear
       THEN /\ dateFields # None
            /\ Val(dateFields).year = 2000 + (currentYear % 100)
            /\ Val(dateFields).month = Val(ShortYearMatch(C14_Normalized)).second - 1
            /\ Val(dateFields).day = Val(ShortYearMatch(C14_Normalized)).third
            /\ dateResult = BuiltFrom(Val(dateFields))
       ELSE dateResult \in C14_WithoutPreference
    /\ (dateValue = "14/01/25" /\ currentYear = 2025) =>
         dateText = Some("2025-01-14 00:00:00")

\* '25/11/05' scanned in 2025 was read year-first, as 5 November 2025.
C14_CurrentShortYearReadYearFirst ==
  /\ datePc = "done"
  /\ preferCurrentYear
  /\ currentYear = 2025
  /\ dateValue = "25/11/05"
  /\ dateText = Some("2025-11-05 00:00:00")

\* The dmy pattern is the one that reads the input: the current-year reading
\* does not apply and the ymd pattern matches nowhere.
C15_IsReadAsDmy ==
  /\ ~(preferCurrentYear /\ C14_IsCurrentShortYear)
  /\ FirstYmd(C14_Normalized, 1) = None
  /\ FirstDmy(C14_Normalized, 1) # None

C15_Match == Val(FirstDmy(C14_Normalized, 1))

\* C15: for an input the dmy pattern D/M/Y reads: if the first component is
\* above 12 and the second is not, the first is the day; if the second is
\* above 12 and the first is not, the second is the day and the first the
\* month; if neither is above 12 the first is the day; a 2-digit year is
\* 2000+YY; '13/02/2025' is 13 February 2025.
C15_DayMonthDisambiguation ==
  (datePc = "done" /\ C15_IsReadAsDmy) =>
    /\ dateFields # None
    /\ (C15_Match.first > 12 /\ C15_Match.second <= 12) =>
         Val(dateFields).day = C15_Match.first /\ Val(dateFields).month + 1 = C15_Match.second
    /\ (C15_Match.second > 12 /\ C15_Match.first <= 12) =>
         Val(dateFields).day = C15_Match.second /\ Val(dateFields).month + 1 = C15_Match.first
    /\ (C15_Match.first <= 12 /\ C15_Match.second <= 12) =>
         Val(dateFields).day = C15_Match.first /\ Val(dateFields).month + 1 = C15_Match.second
    /\ C15_Match.third < 100 => Val(dateFields).year = 2000 + C15_Match.third
    /\ C15_Match.third >= 100 => Val(dateFields).year = C15_Match.third
    /\ dateValue = "13/02/2025" => dateText = Some("2025-02-13 00:00:00")

\* '12/31/2025 12:15 AM' was read month-first: 31 December, a quarter past
\* midnight.
C15_MonthFirstWhenSecondAboveTwelve ==
  /\ datePc = "done"
  /\ dateValue = "12/31/2025 12:15 AM"
  /\ dateText = Some("2025-12-31 00:15:00")

C16_IsIncreasing(seq) == \A k \in 1..(Len(seq) - 1) : seq[k] < seq[k + 1]

\* Items come one per line at most, from lines of the input, in line order.
C16_OneItemPerLineInOrder ==
  /\ Len(items) = Len(itemLine)
  /\ C16_IsIncreasing(itemLine)
  /\ \A k \in 1..Len(itemLine) : itemLine[k] \in 1..Len(lines)
  /\ Len(lines) <= Len(SplitLines(rawText))
  /\ Len(items) <= Len(SplitLines(rawText))
  /\ (ocrPc = "done" /\ rawText \in BlankTexts) => items = <<>>

\* Some branch of the loop applies wherever the function has not returned.
C16_CanStep ==
  \/ ocrPc = "start"
  \/ AtLine
  \/ ocrPc = "line" /\ lineNo > Len(lines)
  \/ ocrPc = "scanned" /\ Len(matches) = 0
  \/ ocrPc = "scanned" /\ Len(matches) > 0 /\ isUnitOnlyLine(sanitizedLine, unitLine)
  \/ IsPricedLine

\* A bound on the steps left before the function returns.
C16_StepsLeft ==
  IF ocrPc = "start" THEN 2 * Len(SplitLines(rawText)) + 3
  ELSE IF ocrPc = "done" THEN 0
  ELSE 2 * (Len(lines) + 1 - lineNo) + (IF ocrPc = "line" THEN 2 ELSE 1)

\* C16: parseReceiptItems terminates without raising on every input string
\* (for empty or whitespace-only input it returns the empty list), emits at
\* most one item per input line, and returns the items in the order of the
\* lines that produced them.
C16_TerminatesWithItemsInLineOrder ==
  /\ [](C16_OneItemPerLineInOrder)
  /\ [](ocrPc # "done" => C16_CanStep)
  /\ [](C16_StepsLeft >= 0)
  /\ [][C16_StepsLeft' < C16_StepsLeft]_vars

\* Two items were returned, from the first and the third line, the second line
\* having produced none.
C16_TwoItemsAroundDroppedLine ==
  /\ ocrPc = "done"
  /\ Len(lines) = 3
  /\ itemLine = <<1, 3>>
  /\ Len(items) = 2

\* The description of the priced line before a buffered description stands in.
C17_OwnDescription ==
  WithoutFragment(
    stripTaxCodeSuffix(stripLeadingCodes(Trim(Sub(sanitizedLine, 1, LastMatch.index)))),
    unitLine)

\* C17: every item returned by parseReceiptItems has a non-empty description
\* containing at least one letter; a priced line whose description has no
\* letters after stripping, while no pendingDescription is buffered, emits
\* nothing.
C17_DescriptionsHaveLetters ==
  /\ [](\A k \in 1..Len(items) :
          Len(items[k].description) > 0 /\ hasLetters(items[k].description))
  /\ [][(IsPricedLine /\ pendingDescription = None /\ ~hasLetters(C17_OwnDescription))
          => items' = items]_vars

\* The amounts matched on the line item k came from.
C18_SourceMatches(k) == PriceMatches(RemoveDollars(lines[itemLine[k]]))

\* C18: every item returned by parseReceiptItems has a non-null lineTotal
\* equal to the last (rightmost) currency amount matched on its source line;
\* an earlier amount on the same line is never used as the line total.
C18_LineTotalIsLastAmount ==
  \A k \in 1..Len(items) :
    /\ items[k].lineTotal # None
    /\ Len(C18_SourceMatches(k)) > 0
    /\ items[k].lineTotal =
         parseMoney(C18_SourceMatches(k)[Len(C18_SourceMatches(k))].text)

\* An item came from a line with two different amounts and carries the second.
C18_SecondAmountIsTheTotal ==
  /\ ocrPc = "done"
  /\ Len(items) = 1
  /\ lines[itemLine[1]] = "Apples 2 @ 1.50 3.00"
  /\ items[1].lineTotal = Some(3 * Scale)

\* The running save stores a receipt in this step.
C19_StoresReceipt == saving # None /\ receipts' # receipts

\* The duplicate query reports true for the receipt being saved.
C19_QueryReportsDuplicate ==
  hasPossibleDuplicateReceipt(receipts, Val(saving).receipt.purchase_datetime,
                              Val(saving).receipt.total)

\* The user overrode: 'Save anyway' was pressed, or the warning was
\* acknowledged.
C19_Overridden == Val(saving).forceDuplicate = "true" \/ Val(saving).acknowledged

\* C19: on the add-receipt screen a receipt for which the duplicate check
\* reports true (by the query, or by the unique-index error on insert) is
\* stored only after an explicit user override ('Save anyway' or the
\* acknowledged warning); after that override the save is not rejected as a
\* duplicate again and stores the receipt.
C19_DuplicateStoredOnlyAfterOverride ==
  /\ [][(C19_StoresReceipt /\ C19_QueryReportsDuplicate) => C19_Overridden]_vars
  /\ [][(saving # None /\ saving' = None /\ C19_Overridden) => alert' = "saved"]_vars

\* The day of row text's parsed purchase datetime lies in the range of days.
C20_IsDatedInRange(text) ==
  /\ Val(filterFrom).day <= Val(RowDate[listScreen][text]).day
  /\ Val(RowDate[listScreen][text]).day <= Val(filterTo).day

\* C20: date-range filtering with a from-day and a to-day is inclusive at
\* both ends on every list screen: each receipt or item whose parsed purchase
\* datetime falls at any time of day on the from-day or the to-day is kept,
\* and nothing dated outside the range is kept.
C20_RangeIsInclusiveAtBothEnds ==
  (filterFrom # None /\ filterTo # None) =>
    \A text \in listRows :
      RowDate[listScreen][text] # None =>
        (text \in shownRows <=> C20_IsDatedInRange(text))

\* Lines of the two forms, as the loop sees them: 'N @ price' and
\* '<w> kg|lb @ price'.
C21_UnitOnlyForms == {"2 @ 1.50", "3 @ 2.00", "1.5 lb @ 2.00"}

C21_LastItem == items[Len(items)]
C21_LastItemAfter == items'[Len(items)]

\* C21: a unit-only line ('N @ price' or '<w> kg|lb @ price') that arrives
\* after at least one item has been emitted emits no item of its own, sets
\* qty and unitPrice of the most recently emitted item only where they are
\* null, never overwrites a non-null qty or unitPrice, and leaves every
\* earlier item unchanged.
C21_UnitOnlyLineBackfillsLastItem ==
  /\ []((ocrPc = "scanned" /\ sanitizedLine \in C21_UnitOnlyForms) =>
          Len(matches) > 0 /\ isUnitOnlyLine(sanitizedLine, unitLine))
  /\ [][((UnitOnlyLine \/ (NoAmountLine /\ unitLine # None)) /\ Len(items) > 0) =>
          /\ Len(items') = Len(items)
          /\ \A k \in 1..(Len(items) - 1) : items'[k] = items[k]
          /\ C21_LastItemAfter.description = C21_LastItem.description
          /\ C21_LastItemAfter.lineTotal = C21_LastItem.lineTotal
          /\ C21_LastItemAfter.qty =
               IF C21_LastItem.qty = None THEN Val(unitLine).qty ELSE C21_LastItem.qty
          /\ C21_LastItemAfter.unitPrice =
               IF C21_LastItem.unitPrice = None THEN Val(unitLine).unitPrice
               ELSE C21_LastItem.unitPrice
          /\ pendingUnit' = pendingUnit]_vars

\* A weight line came after an item without quantity and unit price and gave
\* it both.
C21_WeightLineFilledItem ==
  /\ ocrPc = "done"
  /\ lines = <<"Milk 2L 3.00", "1.5 lb @ 2.00">>
  /\ Len(items) = 1
  /\ items[1].qty = Some(1500)
  /\ items[1].unitPrice = Some(2000)
  /\ items[1].lineTotal = Some(3000)

\* The text of the scanned line before its last amount.
C22_TextBeforeTotal == Trim(Sub(sanitizedLine, 1, LastMatch.index))

C22_LeadingDigits == DigitRun(C22_TextBeforeTotal, 1)

\* The line's description starts with an unparenthesized integer of fewer than
\* 6 digits, a space, and text with letters.
C22_StartsWithQuantity ==
  /\ C22_LeadingDigits > 0
  /\ C22_LeadingDigits < 6
  /\ At(C22_TextBeforeTotal, C22_LeadingDigits + 1) = " "
  /\ hasLetters(From(C22_TextBeforeTotal, C22_LeadingDigits + 2))

C22_Emitted == items'[Len(items')]

\* C22: for a priced line whose description starts with an unparenthesized
\* integer of fewer than 6 digits followed by a space and text with letters
\* (e.g. '2 Milk 3.00'), the emitted item has qty equal to that integer and a
\* description without it; only parenthesized codes and codes of 6 or more
\* digits are removed as item codes.
C22_LeadingIntegerIsQuantity ==
  [][(EmitItem /\ C22_StartsWithQuantity) =>
       /\ C22_Emitted.qty =
            Some(DigitsToInt(Sub(C22_TextBeforeTotal, 1, C22_LeadingDigits)) * Scale)
       /\ C22_Emitted.description =
            Trim(From(C22_TextBeforeTotal, C22_LeadingDigits + 2))]_vars

\* The description the scanned line has of its own, before the buffer is looked at.
C23_OwnDescription ==
  WithoutFragment(
    stripTaxCodeSuffix(stripLeadingCodes(Trim(Sub(sanitizedLine, 1, LastMatch.index)))),
    unitLine)

\* The text the emitted item's description is built from.
C23_DescriptionSource ==
  IF ~hasLetters(C23_OwnDescription) /\ pendingDescription # None
  THEN Val(pendingDescription)
  ELSE C23_OwnDescription

\* C23: a line with letters, without an amount and without a unit pattern is
\* buffered as pendingDescription, a later one replacing an earlier one; the
\* buffer becomes the description of the next priced line only if that line's
\* own description has no letters, and it is cleared after every emitted item,
\* so it is never given to two items.
C23_PendingDescriptionUsedOnce ==
  /\ [][(NoAmountLine /\ unitLine = None /\ hasLetters(sanitizedLine)) =>
          pendingDescription' = Some(sanitizedLine)]_vars
  /\ [][EmitItem =>
          /\ pendingDescription' = None
          /\ items'[Len(items')] =
               BuildItem(Trim(CollapseSpaceRuns(C23_DescriptionSource)),
                         Val(parseMoney(LastMatch.text)), pendingUnit)]_vars
  /\ [][pendingDescription' # pendingDescription =>
          \/ EmitItem
          \/ NoAmountLine /\ unitLine = None /\ hasLetters(sanitizedLine)]_vars
  /\ [](\A k \in 1..Len(items) : \A m \in 1..Len(items) :
          (itemLine[k] = itemLine[m]) => k = m)

\* A buffered line named the item of the weight line after it, and the buffer
\* is empty afterwards.
C23_BufferedLineNamedNextItem ==
  /\ ocrPc = "done"
  /\ lines = <<"Bananas", "0.78 kg @ 2.16/kg 1.69">>
  /\ Len(items) = 1
  /\ items[1].description = "Bananas"
  /\ pendingDescription = None

\* The stored receipts whose purchase_datetime is the candidate's very string.
C24_IdenticalRows ==
  {row \in receipts : row.purchase_datetime = dbReply.purchaseDateTime}

\* C24: in hasReceiptWithPurchaseDate the fuzzy phase is consulted only when
\* phase 1 found no stored receipt with a purchase_datetime string identical
\* to the candidate's: if identical-datetime receipts exist but none matches
\* on total, the result is not-a-duplicate even when another stored receipt
\* lies within the time tolerance with a matching total.
C24_FuzzyPhaseOnlyAfterEmptyExactPhase ==
  (/\ dbReply.op = "hasReceiptWithPurchaseDate"
   /\ C24_IdenticalRows # {}
   /\ \A row \in C24_IdenticalRows :
        ~TotalMatches(row, RoundedTotal(dbReply.total)))
    => dbReply.outcome = "new"

\* C25: in parseReceiptItems pendingUnit is non-null only while no item has
\* been emitted: once the first item exists no unit-only line is buffered for
\* a following item, so a unit-only line printed before its own item goes to
\* the preceding item and the following item takes nothing from it.
C25_PendingUnitOnlyBeforeFirstItem ==
  /\ [](pendingUnit # None => Len(items) = 0)
  /\ [][((UnitOnlyLine \/ (NoAmountLine /\ unitLine # None)) /\ Len(items) > 0) =>
          /\ pendingUnit' = None
          /\ buffered' = buffered
          /\ items' = [items EXCEPT ![Len(items)] = Backfill(@, unitLine)]]_vars
  /\ [][(EmitItem /\ Len(items) > 0) =>
          items'[Len(items')] =
            BuildItem(DescriptionPart, Val(parseMoney(LastMatch.text)), None)]_vars

\* A unit-only line between two items went to the first one; the second has
\* no quantity.
C25_UnitLineWentToPrecedingItem ==
  /\ ocrPc = "done"
  /\ lines = <<"Milk 2L 3.00", "3 @ 2.00", "2 Milk 3.00">>
  /\ Len(items) = 2
  /\ items[1].qty = Some(3 * Scale)
  /\ items[2].qty = None
  /\ pendingUnit = None

\* Two receipts carry the same purchase_datetime and the same total to the cent.
C26_SamePair(a, b) ==
  /\ a.purchase_datetime = b.purchase_datetime
  /\ (a.total = None) = (b.total = None)
  /\ a.total # None => Round2(Val(a.total)) = Round2(Val(b.total))

\* Caller p is about to insert while a keyed row of the same pair is stored.
C26_InsertsSecond(p) ==
  /\ ops[p].pc = "checked"
  /\ \E row \in receipts :
       row.dedupe_key # None /\ C26_SamePair(row, Val(ops[p].arg))

\* C26: for any interleaving of two non-forced saves (duplicate query, then
\* insertReceipt) that carry the same purchase_datetime and the same total to
\* the cent, at most one receipt row with a non-null dedupe_key for that pair
\* is stored: the later insert fails on the unique index and stores nothing.
C26_OneKeyedRowPerPair ==
  /\ [](\A a \in receipts : \A b \in receipts :
          (a.dedupe_key # None /\ b.dedupe_key # None /\ C26_SamePair(a, b)) => a = b)
  /\ [][\A p \in Procs :
          (InsertChecked(p) /\ C26_InsertsSecond(p)) =>
            /\ receipts' = receipts
            /\ receiptItems' = receiptItems
            /\ ops'[p].pc = "refused"]_vars

\* Both calls passed the duplicate query with the same datetime and total;
\* the first stored its row and the second was refused by the index.
C26_SecondOfTwoRacingSavesRefused ==
  /\ ops[1].pc = "saved"
  /\ ops[2].pc = "refused"
  /\ C26_SamePair(Val(ops[1].arg), Val(ops[2].arg))
  /\ Val(ops[1].arg).total # Val(ops[2].arg).total
  /\ Cardinality(receipts) = 1

\* The call of p has ended and its promise is fulfilled, or rejected.
C27_Returned(p) == ops[p].pc \in {"returned", "fulfilled"}
C27_Threw(p) == ops[p].pc \in {"threw", "rejected"}

\* C27: when two transactional operations on the shared database connection
\* (importReceiptBackup, replaceReceiptItems, deleteReceipt) interleave, the
\* failure and ROLLBACK of one never discards or partially commits the writes
\* of the other: for each operation, its writes are either all stored (it
\* returned) or all absent (it threw).
C27_InterleavedOperationsStayAtomic ==
  /\ [](\A p \in Procs :
          /\ C27_Returned(p) => applied[p] = StatementsOf(ops[p])
          /\ C27_Threw(p) => applied[p] = 0)
  /\ [][\A p \in Procs : \A q \in Procs \ {p} :
          Rollback(p) => applied'[q] = applied[q]]_vars

\* Caller 1's import failed after its BEGIN and was rolled back; caller 2's
\* deleteReceipt came in between, and its BEGIN was refused.
C27_RollbackBesideRefusedBegin ==
  /\ ops[1].kind = "import"
  /\ ops[1].pc = "rejected"
  /\ ops[1].before # None
  /\ ops[1].receiptIdMap # {}
  /\ ops[2].kind = "delete"
  /\ ops[2].pc = "rejected"
  /\ ops[2].before = None
  /\ receipts = Val(ops[1].before).receipts

C28_Backup == Val(ops[1].arg)
C28_Before == Val(ops[1].before)

\* C28: importReceiptBackup run alone is all-or-nothing: if it throws after
\* BEGIN (a receipt or item insert fails), no receipt and no item of the
\* backup remains stored and the rows that existed before are unchanged; if
\* it returns, every receipt of the backup is stored and itemsImported +
\* skippedItems equals the number of items in the backup.
C28_ImportAloneIsAllOrNothing ==
  ops[1].kind = "import" =>
    /\ (ops[1].pc \in {"threw", "rejected"} /\ ops[1].before # None) =>
         /\ receipts = C28_Before.receipts
         /\ receiptItems = C28_Before.receiptItems
    /\ ops[1].pc \in {"returned", "fulfilled"} =>
         /\ \A k \in 1..Len(C28_Backup.receipts) :
              NewRow(C28_Before.nextReceiptId + k - 1, C28_Backup.receipts[k], TRUE)
                \in receipts
         /\ C28_Before.receipts \subseteq receipts
         /\ C28_Before.receiptItems \subseteq receiptItems
         /\ ops[1].itemsImported + ops[1].skippedItems = Len(C28_Backup.items)
         /\ Cardinality(receiptItems) =
              Cardinality(C28_Before.receiptItems) + ops[1].itemsImported

\* The import failed at an item after it had inserted a receipt, and the
\* tables are as they were.
C28_FailedImportLeftNothing ==
  /\ ops[1].kind = "import"
  /\ ops[1].pc = "rejected"
  /\ ops[1].before # None
  /\ ops[1].receiptIdMap # {}
  /\ Val(ops[1].before).receipts # {}
  /\ receipts = Val(ops[1].before).receipts
  /\ receiptItems = Val(ops[1].before).receiptItems

\* An element of 'items' that is an item: an object with a name that is not
\* blank.
C29_IsItem(element) ==
  /\ element.kind = "object"
  /\ Prop(element, "name").kind = "string"
  /\ Trim(Prop(element, "name").val) # ""

C29_Data == aiContent.parse
C29_Items == SelectSeq(Prop(C29_Data, "items").val, C29_IsItem)

\* C29: normalization of the AI response judges the items one by one: a
\* malformed element of 'items' (null or a non-object) is dropped alone, and
\* the other valid items and the valid top-level merchant, purchase_datetime,
\* subtotal, tax and total are still returned.
C29_MalformedItemIsDroppedAlone ==
  (/\ aiPc = "done"
   /\ ~aiContent.isEmpty
   /\ C29_Data.kind = "object"
   /\ Prop(C29_Data, "items").kind = "array")
    => /\ aiResult # None
       /\ Val(aiResult).items =
            [k \in 1..Len(C29_Items) |-> normalizeAiItem(C29_Items[k])]
       /\ Val(aiResult).merchant = TextOrNull(Prop(C29_Data, "merchant"))
       /\ Val(aiResult).purchase_datetime =
            TextOrNull(Prop(C29_Data, "purchase_datetime"))
       /\ Val(aiResult).subtotal = FiniteOrNull(Prop(C29_Data, "subtotal"))
       /\ Val(aiResult).tax = FiniteOrNull(Prop(C29_Data, "tax"))
       /\ Val(aiResult).total = FiniteOrNull(Prop(C29_Data, "total"))

\* The check was started for a purchase-date text that is no longer the
\* text of the field.
C30_IsStale(check) == check.text # purchaseDateTimeText

\* C30: on the add-receipt screen the result of a debounced duplicate check
\* that was started for an earlier purchase-date text never sets or clears
\* the duplicate warning after the text has changed: for any interleaving of
\* edits and check completions, the warning reflects only the check started
\* for the current text.
C30_StaleCheckNeverTouchesWarning ==
  /\ [][\A check \in inFlight :
          (CheckCompletes(check) /\ C30_IsStale(check)) =>
            /\ purchaseDateWarning' = purchaseDateWarning
            /\ purchaseDateAcknowledged' = purchaseDateAcknowledged]_vars
  /\ [][(purchaseDateWarning' # purchaseDateWarning /\ DuplicateCheckCompletes) =>
          /\ lastCheck' # None
          /\ Val(lastCheck').check.text = purchaseDateTimeText
          /\ Some(Val(lastCheck').check.purchaseDateTime) =
               ScanNormalized[purchaseDateTimeText]
          /\ purchaseDateWarning' = Val(lastCheck').hasDuplicate]_vars
  /\ [](\A check \in inFlight : check.isActive => ~C30_IsStale(check))

\* The query of a check found a duplicate, but it answered after the text
\* had been changed to another date, and the warning stayed off.
C30_StaleDuplicateAnswerIgnored ==
  /\ lastCheck # None
  /\ Val(lastCheck).hasDuplicate
  /\ Val(lastCheck).check.text = "2025-03-01 10:00:00"
  /\ purchaseDateTimeText = "2025-03-02"
  /\ ~purchaseDateWarning
====
